---- MODULE Spec2Model ----
(***************************************************************************)
(* State-machine model of the Spinnaker stereo examples:                   *)
(*   - refinement.py: the acquisition/render loop and the refinement       *)
(*     worker thread sharing module globals under `lock`;                  *)
(*   - the continuous acquisition loops of the six stereo examples, one    *)
(*     loop iteration split in the frame request and its handling;         *)
(*   - ImageUtilityStereo.py: the mouse callback and its two-click         *)
(*     accumulator;                                                        *)
(*   - pyspin_inference.py / PySpin_inference.py: disparity_to_pointcloud  *)
(*     and write_ply of the two deep-learning examples;                    *)
(*   - the depth colorizations and the hover query of the examples;        *)
(*   - the Esc key of the display loops;                                   *)
(*   - FileAccessUserSet.py: download_user_set, upload_user_set,           *)
(*     parse_args and main;                                                *)
(*   - CameraTimeToPCTime.py: acquire_images;                              *)
(*   - refinement.py: main running one camera after the other.             *)
(* Disparities are integers in units of 1/(256*SubSteps) pixel, so that    *)
(* the 16-bit fixed-point conversion of the End to End example truncates.  *)
(***************************************************************************)
EXTENDS Integers, Sequences, FiniteSets, TLC

\* ------------------------------------------------------------------------
\* Bounds
\* ------------------------------------------------------------------------
\* number of complete frames the camera delivers in one run
MaxFrames == 3
\* number of frame requests of an acquisition loop
MaxRequests == 3
\* largest display coordinate a mouse event carries
MaxCoord == 2
\* rows and columns of the disparity image
DispRows == 3
DispCols == 3
\* pixels of a disparity frame handed to disparity_to_pointcloud
MaxPixels == 3
\* largest decimation factor
MaxDecimation == 3
\* disparity steps below one 1/256 pixel step of the fixed-point format
SubSteps == 2
\* pixels of a frame that is colorized
MaxColorPixels == 1
\* iterations of the render loop
MaxRenders == 2
\* bytes of the largest user-set file, local or on the camera
MaxFileBytes == 7
\* bytes of the largest camera file access buffer
MaxBufferBytes == 8
\* arguments of the longest command line
MaxArgs == 3
\* fragments of the longest device model name
MaxNameFragments == 2
\* cameras in the camera list
MaxCameras == 2

\* ------------------------------------------------------------------------
\* refinement.py : shared globals, the two threads
\* ------------------------------------------------------------------------
VARIABLES
    lock,                       \* holder of threading.Lock(): "free", "main", "worker"
    exit_flag,
    latest_rect_left,           \* frame id of the published left image, None = 0
    latest_disparity_camera,    \* frame id of the published SGM disparity, None = 0
    latest_refined_disp,        \* refined array object, see NoRefined
    latest_refined_left,        \* frame id of the left snapshot of the result
    new_refined_available,
    mainPc,                     \* position of acquire_images
    workerPc,                   \* position of refinement_inference_thread
    frameNo,                    \* id of the last complete frame acquired
    rect_left_cv_image,         \* main local: frame being handled
    refined_disp,               \* main local: the array read at line 316: "zeros", "shared"
                                \* (the object latest_refined_disp refers to) or "stale"
    refined_left_snapshot,      \* worker local
    sgm,                        \* worker local
    refined                     \* worker local: result of run_refinement

refVars == <<lock, exit_flag, latest_rect_left, latest_disparity_camera,
             latest_refined_disp, latest_refined_left, new_refined_available,
             mainPc, workerPc, frameNo, rect_left_cv_image, refined_disp,
             refined_left_snapshot, sgm, refined>>

\* ------------------------------------------------------------------------
\* the continuous acquisition loops
\* ------------------------------------------------------------------------
VARIABLES
    acqVariant,     \* which example runs
    acqPc,          \* "idle", "fetch", "handle", "ended", "returned", "crashed", "raised"
    acqRequests,    \* calls of GetNextImageSync so far
    image_list,     \* the image set being handled, see NoImageList
    acqFetch,       \* outcome of the last GetNextImageSync: "none", "ok", "raise"
    acqHandled,     \* number of times the current image_list was handled
    acqEffects,     \* what was done with the current image_list
    console         \* messages printed by the last step

acqVars == <<acqVariant, acqPc, acqRequests, image_list, acqFetch, acqHandled,
             acqEffects, console>>

\* ------------------------------------------------------------------------
\* ImageUtilityStereo.py : globals of the mouse callback
\* ------------------------------------------------------------------------
VARIABLES
    clicked_points,         \* sequence of clicked display points <<x, y>>
    global_disp_image_ptr,  \* None or the frame shown (set with global_rect_left_image_resized)
    global_measurement,     \* NoMeasurement or the last two-point measurement
    global_mouse_x,
    global_mouse_y,
    text_point,             \* None or the pixel the hover text was computed for
    lastCallback            \* what the last mouse_callback invocation did

clickVars == <<clicked_points, global_disp_image_ptr, global_measurement,
               global_mouse_x, global_mouse_y, text_point, lastCallback>>

\* ------------------------------------------------------------------------
\* disparity_to_pointcloud and write_ply
\* ------------------------------------------------------------------------
VARIABLES
    cloudVariant,   \* "EndToEnd" or "FoundationStereo"
    cloudPc,        \* "input", "cloud", "written", "raised"
    disp,           \* the disparity frame passed in (one entry per pixel)
    focalBaseline,  \* stereo_params.focalLength * stereo_params.baseline
    decimation,
    disp_masked,    \* disp as it is when mask_valid is computed
    pts,            \* points returned, see Point
    colors,         \* colours returned, in 1/255
    plyFile,        \* the output file, see NoFile
    plyConsole,     \* message printed by write_ply
    plyIoError      \* the operating-system failure write_ply met: "ok", "open", "write"

cloudVars == <<cloudVariant, cloudPc, disp, focalBaseline, decimation,
               disp_masked, pts, colors, plyFile, plyConsole, plyIoError>>

\* ------------------------------------------------------------------------
\* depth / disparity colorization and the hover depth query
\* ------------------------------------------------------------------------
VARIABLES
    colVariant,     \* the script whose colorization runs
    colPc,          \* "input", "shown"
    colField,       \* the frame: raw disparities, or depths in mm (ImageUtilityStereo)
    colInvalid,     \* stereo_params.invalidDataValue
    colOffset,      \* stereo_params.coordinateOffset, px
    colFb,          \* stereo_params.focalLength * stereo_params.baseline
    colHasRefined,  \* latest_refined_disp is not None
    colPublished,   \* latest_refined_disp as the worker published it
    colLatest,      \* latest_refined_disp as it is now
    colPanels,      \* the colour images produced, by name, see Panel
    colHover,       \* the distances shown for the hovered pixel
    colRenders      \* iterations of the render loop so far

colVars == <<colVariant, colPc, colField, colInvalid, colOffset, colFb,
             colHasRefined, colPublished, colLatest, colPanels, colHover,
             colRenders>>

\* ------------------------------------------------------------------------
\* the Esc key and the acquisition loops that show a window
\* ------------------------------------------------------------------------
VARIABLES
    escVariant,     \* "StereoOpenCV", "ImageUtilityStereo" or "refinement"
    escPc,          \* "idle", "fetch", "handle", "ended", "returned"
    escPending,     \* the user pressed Esc and no cv2.waitKey has read it yet
    escImageList,   \* the image set being handled
    escConsole      \* messages printed by the last step

escVars == <<escVariant, escPc, escPending, escImageList, escConsole>>

\* ------------------------------------------------------------------------
\* FileAccessUserSet.py : download_user_set and upload_user_set
\* ------------------------------------------------------------------------
VARIABLES
    faOp,                       \* "download" or "upload"
    faPc,                       \* position in the function
    file_size,                  \* bytes of the local file given to upload
    cam_file_size,              \* cam.FileSize
    intermediate_buffer_size,   \* cam.FileAccessLength once raised to the buffer length
    data_size,                  \* upload: data.size, padding included once added
    faOffset,                   \* upload: start of the next chunk; download: reads done
    FileAccessLength,           \* the length the next camera read / write transfers
    num_remaining_bytes,
    chunks,                     \* lengths of the chunks handed to the camera buffer / read from it
    camOps,                     \* operations executed on the camera, see CamOp
    local_file,                 \* download: "none" or "written"
    faReturn                    \* "none", "True", "False", or "raised"

faVars == <<faOp, faPc, file_size, cam_file_size, intermediate_buffer_size,
            data_size, faOffset, FileAccessLength, num_remaining_bytes, chunks,
            camOps, local_file, faReturn>>

\* ------------------------------------------------------------------------
\* FileAccessUserSet.py : main
\* ------------------------------------------------------------------------
VARIABLES
    args,           \* the argument list given to main
    fmPc,           \* position in main
    num_cameras,    \* cameras in system.GetCameras()
    cam_touched,    \* cam.Init() or any later camera access has happened
    transfers,      \* the calls of download_user_set / upload_user_set made
    result,         \* main's result flag
    fmConsole       \* what main and parse_args have printed

fmVars == <<args, fmPc, num_cameras, cam_touched, transfers, result, fmConsole>>

\* ------------------------------------------------------------------------
\* CameraTimeToPCTime.py : acquire_images
\* ------------------------------------------------------------------------
VARIABLES
    device_name,        \* cam.DeviceModelName(), a sequence of name fragments
    device_type,        \* the DeviceType of the transport layer
    calculate_offset,   \* the offset function selected, or "unbound"
    tsPc,               \* position in acquire_images
    tsImage,            \* the loop index i
    offset_failed,      \* the selected function has returned None
    converted,          \* timestamps converted so far
    tsReturn            \* "none", "True", "False", or the exception that escaped

tsVars == <<device_name, device_type, calculate_offset, tsPc, tsImage,
            offset_failed, converted, tsReturn>>

\* ------------------------------------------------------------------------
\* refinement.py : main, one camera after the other
\* ------------------------------------------------------------------------
VARIABLES
    camera,         \* index i + 1 of the camera main is running
    cameras,        \* cam_list.GetSize()
    camFirstFrame   \* id of the last frame acquired before this camera's run

camVars == <<camera, cameras, camFirstFrame>>

vars == <<refVars, acqVars, clickVars, cloudVars, colVars, escVars, faVars, fmVars, tsVars, camVars>>

\* what the steps of one program leave alone: the state of the others
notRef == <<acqVars, clickVars, cloudVars, colVars, escVars, faVars, fmVars, tsVars, camVars>>
notAcq == <<refVars, clickVars, cloudVars, colVars, escVars, faVars, fmVars, tsVars, camVars>>
notClick == <<refVars, acqVars, cloudVars, colVars, escVars, faVars, fmVars, tsVars, camVars>>
notCloud == <<refVars, acqVars, clickVars, colVars, escVars, faVars, fmVars, tsVars, camVars>>
notColor == <<refVars, acqVars, clickVars, cloudVars, escVars, faVars, fmVars, tsVars, camVars>>
notEsc == <<refVars, acqVars, clickVars, cloudVars, colVars, faVars, fmVars, tsVars, camVars>>
notFa == <<refVars, acqVars, clickVars, cloudVars, colVars, escVars, fmVars, tsVars, camVars>>
notFm == <<refVars, acqVars, clickVars, cloudVars, colVars, escVars, faVars, tsVars, camVars>>
notTs == <<refVars, acqVars, clickVars, cloudVars, colVars, escVars, faVars, fmVars, camVars>>
notCam == <<refVars, acqVars, clickVars, cloudVars, colVars, escVars, faVars, fmVars, tsVars>>

None == 0

\* a refined disparity array: the snapshot it was computed from and the
\* number of times coordinateOffset was added to it in place
NoRefined == [left |-> None, disp |-> None, offs |-> 0]

\* lock = threading.Lock(): acquire succeeds only when nobody holds it
CanAcquire_NoMutex(holder) == TRUE
CanAcquire(holder) == holder = "free"

\* run_refinement + filterSpeckles: a new array computed from one snapshot
run_refinement(rgb, sgm_disp) ==
    [left |-> rgb, disp |-> sgm_disp, offs |-> 0]

RefStart ==
    /\ lock = "free"
    /\ exit_flag = FALSE
    /\ latest_rect_left = None
    /\ latest_disparity_camera = None
    /\ latest_refined_disp = NoRefined
    /\ latest_refined_left = None
    /\ new_refined_available = FALSE
    /\ mainPc = "start"
    /\ workerPc = "unstarted"
    /\ frameNo = 0
    /\ rect_left_cv_image = None
    /\ refined_disp = "zeros"
    /\ refined_left_snapshot = None
    /\ sgm = None
    /\ refined = NoRefined

mainLocals == <<rect_left_cv_image, refined_disp>>
workerLocals == <<refined_left_snapshot, sgm, refined>>
shared == <<latest_rect_left, latest_disparity_camera, latest_refined_disp,
            latest_refined_left, new_refined_available>>

\* ---- acquire_images ------------------------------------------------------

\* ref_thread = threading.Thread(...); ref_thread.start()
MainStartThread ==
    /\ mainPc = "start"
    /\ mainPc' = "fetch"
    /\ workerPc' = "check"
    /\ UNCHANGED <<lock, exit_flag, shared, frameNo, mainLocals, workerLocals>>
    /\ UNCHANGED notRef

\* GetNextImageSync .. filterSpeckles: a complete frame reaches the lock
MainFetchOk ==
    /\ mainPc = "fetch"
    /\ frameNo < MaxFrames
    /\ frameNo' = frameNo + 1
    /\ rect_left_cv_image' = frameNo + 1
    /\ mainPc' = "lockPublish"
    /\ UNCHANGED <<lock, exit_flag, shared, refined_disp, workerPc,
                   workerLocals>>
    /\ UNCHANGED notRef

\* timeout, SpinnakerException, incomplete image or failed conversion: continue
MainFetchSkip ==
    /\ mainPc = "fetch"
    /\ UNCHANGED refVars
    /\ UNCHANGED notRef

\* with lock: (line 290)
MainLockPublish ==
    /\ mainPc = "lockPublish"
    /\ CanAcquire(lock)
    /\ lock' = "main"
    /\ mainPc' = "pubLeft"
    /\ UNCHANGED <<exit_flag, shared, frameNo, mainLocals, workerPc,
                   workerLocals>>
    /\ UNCHANGED notRef

\* latest_rect_left = rect_left_cv_image.copy()
MainPubLeft ==
    /\ mainPc = "pubLeft"
    /\ latest_rect_left' = rect_left_cv_image
    /\ mainPc' = "pubDisp"
    /\ UNCHANGED <<lock, exit_flag, latest_disparity_camera, latest_refined_disp,
                   latest_refined_left, new_refined_available, frameNo,
                   mainLocals, workerPc, workerLocals>>
    /\ UNCHANGED notRef

\* latest_disparity_camera = SGM_disp_raw.copy(); leaving the with block
MainPubDisp ==
    /\ mainPc = "pubDisp"
    /\ latest_disparity_camera' = rect_left_cv_image
    /\ lock' = "free"
    /\ mainPc' = "lockRead"
    /\ UNCHANGED <<exit_flag, latest_rect_left, latest_refined_disp,
                   latest_refined_left, new_refined_available, frameNo,
                   mainLocals, workerPc, workerLocals>>
    /\ UNCHANGED notRef

\* with lock: (line 314)
MainLockRead ==
    /\ mainPc = "lockRead"
    /\ CanAcquire(lock)
    /\ lock' = "main"
    /\ mainPc' = "read"
    /\ UNCHANGED <<exit_flag, shared, frameNo, mainLocals, workerPc,
                   workerLocals>>
    /\ UNCHANGED notRef

\* refined_disp = latest_refined_disp if not None else zeros; leaving the block
MainRead ==
    /\ mainPc = "read"
    /\ refined_disp' = IF latest_refined_disp = NoRefined THEN "zeros" ELSE "shared"
    /\ lock' = "free"
    /\ mainPc' = "render"
    /\ UNCHANGED <<exit_flag, shared, frameNo, rect_left_cv_image, workerPc,
                   workerLocals>>
    /\ UNCHANGED notRef

\* lines 318-355: refined_disp[...] += coordinateOffset works in place on the
\* array read at line 316, which is the published one unless the worker has
\* replaced it (or none was published and a zeros array was used)
MainRender ==
    /\ mainPc = "render"
    /\ latest_refined_disp' =
         IF refined_disp = "shared"
         THEN [latest_refined_disp EXCEPT !.offs = @ + 1]
         ELSE latest_refined_disp
    /\ mainPc' = "key"
    /\ UNCHANGED <<lock, exit_flag, latest_rect_left, latest_disparity_camera,
                   latest_refined_left, new_refined_available, frameNo,
                   mainLocals, workerPc, workerLocals>>
    /\ UNCHANGED notRef

\* key = cv2.waitKey(1) & 0xFF: 's' saves, Esc sets exit_flag and breaks
MainKey ==
    /\ mainPc = "key"
    /\ \E key \in {"none", "s", "esc"} :
         IF key = "esc"
         THEN exit_flag' = TRUE /\ mainPc' = "end"
         ELSE exit_flag' = exit_flag /\ mainPc' = "fetch"
    /\ UNCHANGED <<lock, shared, frameNo, mainLocals, workerPc, workerLocals>>
    /\ UNCHANGED notRef

InMainLoop == mainPc \in {"fetch", "lockPublish", "pubLeft", "pubDisp",
                           "lockRead", "read", "render", "key"}

\* the calls in which the loop waits: GetNextImageSync, lock.acquire, waitKey
MainWaits == mainPc \in {"fetch", "lockPublish", "lockRead", "key"}

\* except KeyboardInterrupt: exit_flag = True; break  (Ctrl-C delivered while
\* the loop waits in one of its blocking calls)
MainKeyboardInterrupt ==
    /\ MainWaits
    /\ exit_flag' = TRUE
    /\ mainPc' = "end"
    /\ UNCHANGED <<lock, shared, frameNo, mainLocals, workerPc, workerLocals>>
    /\ UNCHANGED notRef

\* cam.EndAcquisition(); cv2.destroyAllWindows()  -- a SpinnakerException
\* here reaches the outer handler, which returns False without joining
MainEndAcquisition ==
    /\ mainPc = "end"
    /\ \E raised \in BOOLEAN :
         mainPc' = IF raised THEN "failed" ELSE "join"
    /\ UNCHANGED <<lock, exit_flag, shared, frameNo, mainLocals, workerPc,
                   workerLocals>>
    /\ UNCHANGED notRef

\* ref_thread.join()
MainJoin ==
    /\ mainPc = "join"
    /\ workerPc = "done"
    /\ mainPc' = "done"
    /\ UNCHANGED <<lock, exit_flag, shared, frameNo, mainLocals, workerPc,
                   workerLocals>>
    /\ UNCHANGED notRef

\* ---- refinement_inference_thread ------------------------------------------

\* while not exit_flag:
WorkerCheck_Forever ==
    /\ workerPc = "check"
    /\ workerPc' = "lockSnapshot"
    /\ UNCHANGED <<lock, exit_flag, shared, mainPc, frameNo, mainLocals,
                   workerLocals>>
    /\ UNCHANGED notRef
WorkerCheck ==
    /\ workerPc = "check"
    /\ workerPc' = IF exit_flag THEN "done" ELSE "lockSnapshot"
    /\ UNCHANGED <<lock, exit_flag, shared, mainPc, frameNo, mainLocals,
                   workerLocals>>
    /\ UNCHANGED notRef

\* with lock: (line 222)
WorkerLockSnapshot ==
    /\ workerPc = "lockSnapshot"
    /\ CanAcquire(lock)
    /\ lock' = "worker"
    /\ workerPc' = "test"
    /\ UNCHANGED <<exit_flag, shared, mainPc, frameNo, mainLocals,
                   workerLocals>>
    /\ UNCHANGED notRef

\* if latest_rect_left is None or latest_disparity_camera is None: continue
WorkerTest ==
    /\ workerPc = "test"
    /\ IF latest_rect_left = None \/ latest_disparity_camera = None
       THEN lock' = "free" /\ workerPc' = "check"
       ELSE lock' = lock /\ workerPc' = "snapLeft"
    /\ UNCHANGED <<exit_flag, shared, mainPc, frameNo, mainLocals,
                   workerLocals>>
    /\ UNCHANGED notRef

\* refined_left_snapshot = latest_rect_left.copy()
WorkerSnapLeft ==
    /\ workerPc = "snapLeft"
    /\ refined_left_snapshot' = latest_rect_left
    /\ workerPc' = "snapDisp"
    /\ UNCHANGED <<lock, exit_flag, shared, mainPc, frameNo, mainLocals, sgm,
                   refined>>
    /\ UNCHANGED notRef

\* sgm = latest_disparity_camera.copy(); leaving the with block
WorkerSnapDisp_KeepLock ==
    /\ workerPc = "snapDisp"
    /\ sgm' = latest_disparity_camera
    /\ workerPc' = "infer"
    /\ UNCHANGED <<lock, exit_flag, shared, mainPc, frameNo, mainLocals,
                   refined_left_snapshot, refined>>
    /\ UNCHANGED notRef
WorkerSnapDisp ==
    /\ workerPc = "snapDisp"
    /\ sgm' = latest_disparity_camera
    /\ lock' = "free"
    /\ workerPc' = "infer"
    /\ UNCHANGED <<exit_flag, shared, mainPc, frameNo, mainLocals,
                   refined_left_snapshot, refined>>
    /\ UNCHANGED notRef

\* refined = run_refinement(refined_left_snapshot, sgm) .. astype / 64.0
WorkerInfer ==
    /\ workerPc = "infer"
    /\ refined' = run_refinement(refined_left_snapshot, sgm)
    /\ workerPc' = "lockResult"
    /\ UNCHANGED <<lock, exit_flag, shared, mainPc, frameNo, mainLocals,
                   refined_left_snapshot, sgm>>
    /\ UNCHANGED notRef

\* with lock: (line 231)
WorkerLockResult ==
    /\ workerPc = "lockResult"
    /\ CanAcquire(lock)
    /\ lock' = "worker"
    /\ workerPc' = "pubDisp"
    /\ UNCHANGED <<exit_flag, shared, mainPc, frameNo, mainLocals,
                   workerLocals>>
    /\ UNCHANGED notRef

\* latest_refined_disp = refined
WorkerPubDisp ==
    /\ workerPc = "pubDisp"
    /\ latest_refined_disp' = refined
    /\ refined_disp' = IF refined_disp = "shared" THEN "stale" ELSE refined_disp
    /\ workerPc' = "pubLeft"
    /\ UNCHANGED <<lock, exit_flag, latest_rect_left, latest_disparity_camera,
                   latest_refined_left, new_refined_available, mainPc, frameNo,
                   rect_left_cv_image, workerLocals>>
    /\ UNCHANGED notRef

\* latest_refined_left = refined_left_snapshot.copy();
\* new_refined_available = True; leaving the with block
WorkerPubLeft ==
    /\ workerPc = "pubLeft"
    /\ latest_refined_left' = refined_left_snapshot
    /\ new_refined_available' = TRUE
    /\ lock' = "free"
    /\ workerPc' = "sleep"
    /\ UNCHANGED <<exit_flag, latest_rect_left, latest_disparity_camera,
                   latest_refined_disp, mainPc, frameNo, mainLocals,
                   workerLocals>>
    /\ UNCHANGED notRef

\* refined_fps update; time.sleep(0.001)
WorkerSleep ==
    /\ workerPc = "sleep"
    /\ workerPc' = "check"
    /\ UNCHANGED <<lock, exit_flag, shared, mainPc, frameNo, mainLocals,
                   workerLocals>>
    /\ UNCHANGED notRef

Main ==
    \/ MainStartThread
    \/ MainFetchOk
    \/ MainFetchSkip
    \/ MainLockPublish
    \/ MainPubLeft
    \/ MainPubDisp
    \/ MainLockRead
    \/ MainRead
    \/ MainRender
    \/ MainKey
    \/ MainKeyboardInterrupt
    \/ MainEndAcquisition
    \/ MainJoin

Worker ==
    \/ WorkerCheck
    \/ WorkerLockSnapshot
    \/ WorkerTest
    \/ WorkerSnapLeft
    \/ WorkerSnapDisp
    \/ WorkerInfer
    \/ WorkerLockResult
    \/ WorkerPubDisp
    \/ WorkerPubLeft
    \/ WorkerSleep

\* ------------------------------------------------------------------------
\* Acquisition loops: StereoOpenCV, StereoOpen3D, ImageUtilityStereo,
\* refinement, End to End Deep Stereo, Foundation Stereo
\* ------------------------------------------------------------------------
Variants == {"StereoOpenCV", "StereoOpen3D", "ImageUtilityStereo",
             "refinement", "EndToEnd", "FoundationStereo"}

\* an image of the list: present and complete, absent (None), or incomplete
ImageStatus == {"ok", "none", "incomplete"}
NoImageList == [left |-> "none", disp |-> "none", right |-> "none"]
ImageLists == [left : ImageStatus, disp : ImageStatus, right : ImageStatus]

\* image is None or image.IsIncomplete()
Unusable(image) == image = "none" \/ image = "incomplete"

AcqIdle ==
    /\ acqVariant = "StereoOpenCV"
    /\ acqPc = "idle"
    /\ acqRequests = 0
    /\ image_list = NoImageList
    /\ acqFetch = "none"
    /\ acqHandled = 0
    /\ acqEffects = {}
    /\ console = {}

\* cam.BeginAcquisition() done, the loop is entered
AcqStart ==
    /\ acqVariant \in Variants
    /\ acqPc = "fetch"
    /\ acqRequests = 0
    /\ image_list = NoImageList
    /\ acqFetch = "none"
    /\ acqHandled = 0
    /\ acqEffects = {}
    /\ console = {}

\* what one pass over the loop body does: messages printed, what is done with
\* the images, and where control goes
Skip(msgs) == [console |-> msgs, effects |-> {}, next |-> "fetch"]
Done(effects, key) ==
    [console |-> IF key = "s" THEN {"saved"} ELSE IF key = "esc" THEN {"exit"} ELSE {},
     effects |-> effects \cup (IF key = "s" THEN {"save"} ELSE {}),
     next |-> IF key = "esc" THEN "ended" ELSE "fetch"]

\* validate_image_list with rectSensor1 and disparity enabled
validate_image_list(il) == ~(Unusable(il.left) \/ Unusable(il.disp))

\* ---- GetNextImageSync(2000) raised: where each loop goes -------------------
\* StereoOpenCV: except PySpin.SpinnakerException as ex: continue
StereoOpenCV_OnFetchError == Skip({})
\* StereoOpen3D: except PySpin.SpinnakerException as ex: continue
StereoOpen3D_OnFetchError == Skip({})
\* ImageUtilityStereo: print('Spinnaker Exception: %s' % ex); continue
ImageUtilityStereo_OnFetchError == Skip({"Spinnaker Exception"})
\* refinement: print('Spinnaker Exception:', ex); continue
refinement_OnFetchError == Skip({"Spinnaker Exception"})
\* End to End: the call is outside every except clause; the exception leaves
\* the while loop through the finally block and main
EndToEnd_OnFetchError == [console |-> {}, effects |-> {}, next |-> "crashed"]
\* Foundation Stereo: print("GetNextImageSync timed out or failed:", ex); continue
FoundationStereo_OnFetchError == Skip({"GetNextImageSync timed out or failed"})

OnFetchError(v) ==
    CASE v = "StereoOpenCV" -> StereoOpenCV_OnFetchError
      [] v = "StereoOpen3D" -> StereoOpen3D_OnFetchError
      [] v = "ImageUtilityStereo" -> ImageUtilityStereo_OnFetchError
      [] v = "refinement" -> refinement_OnFetchError
      [] v = "EndToEnd" -> EndToEnd_OnFetchError
      [] v = "FoundationStereo" -> FoundationStereo_OnFetchError

\* ---- the loop body after a successful GetNextImageSync ---------------------
\* getRaise: GetByPayloadType raises SpinnakerException
\* conv:     convert_to_cv_image returns an image (not None)
StereoOpenCV_Handle(il, getRaise, conv, key) ==
    IF getRaise THEN Skip({})
    ELSE IF ~validate_image_list(il)
         THEN Skip({"Image List is incomplete", "Failed to get next image set"})
    ELSE IF Unusable(il.left) THEN Skip({"Rectified left image is incomplete or unavailable"})
    ELSE IF Unusable(il.disp) THEN Skip({"Disparity image is incomplete or unavailable"})
    ELSE IF ~conv THEN Skip({"Failed to convert images to OpenCV format"})
    ELSE Done({"convert", "display"}, key)

StereoOpen3D_Handle(il, getRaise, conv, key) ==
    IF getRaise THEN Skip({})
    ELSE IF ~validate_image_list(il)
         THEN Skip({"Image List is incomplete", "Failed to get next image set"})
    ELSE IF Unusable(il.left) THEN Skip({"Rectified left image is incomplete or unavailable"})
    ELSE IF Unusable(il.disp) THEN Skip({"Disparity image is incomplete or unavailable"})
    ELSE [console |-> IF key = "esc" THEN {"exit"} ELSE {},
          effects |-> {"convert", "display"},
          next |-> IF key = "esc" THEN "ended" ELSE "fetch"]

ImageUtilityStereo_Handle(il, getRaise, conv, key) ==
    IF getRaise THEN Skip({"Spinnaker Exception"})
    ELSE IF ~validate_image_list(il)
         THEN Skip({"Image List is incomplete", "Failed to get next image set"})
    ELSE IF Unusable(il.left) THEN Skip({"Rectified left image is incomplete or unavailable"})
    ELSE IF Unusable(il.disp) THEN Skip({"Disparity image is incomplete or unavailable"})
    ELSE IF ~conv THEN Skip({"Failed to convert images to OpenCV format"})
    ELSE Done({"convert", "publish", "display"}, key)

refinement_Handle(il, getRaise, conv, key) ==
    IF getRaise THEN Skip({"Spinnaker Exception"})
    ELSE IF Unusable(il.left) THEN Skip({"Rectified left image incomplete"})
    ELSE IF Unusable(il.disp) THEN Skip({"Disparity image incomplete"})
    ELSE IF ~conv THEN Skip({"Conversion to OpenCV image failed"})
    ELSE Done({"convert", "publish", "display"}, key)

EndToEnd_Handle(il, getRaise, conv, key) ==
    IF getRaise THEN Skip({"rectified stream not available, skipping frame"})
    ELSE IF il.left = "none" \/ il.right = "none"
         THEN Skip({"Left or right rectified image stream not found, skipping frame"})
    ELSE IF il.left = "incomplete" \/ il.right = "incomplete"
         THEN Skip({"Incomplete image(s), skipping"})
    ELSE Done({"convert", "display"}, key)

FoundationStereo_Handle_RightUnchecked(il, getRaise, conv, key) ==
    IF getRaise THEN Skip({"Failed to fetch rectified streams"})
    ELSE IF il.left = "none"
         THEN Skip({"Left or right rectified image stream not found, skipping frame"})
    ELSE IF il.left = "incomplete"
         THEN Skip({"Incomplete image(s), skipping"})
    ELSE Done({"convert", "display"}, key)
FoundationStereo_Handle(il, getRaise, conv, key) ==
    IF getRaise THEN Skip({"Failed to fetch rectified streams"})
    ELSE IF il.left = "none" \/ il.right = "none"
         THEN Skip({"Left or right rectified image stream not found, skipping frame"})
    ELSE IF il.left = "incomplete" \/ il.right = "incomplete"
         THEN Skip({"Incomplete image(s), skipping"})
    ELSE Done({"convert", "display"}, key)

Handle(v, il, getRaise, conv, key) ==
    CASE v = "StereoOpenCV" -> StereoOpenCV_Handle(il, getRaise, conv, key)
      [] v = "StereoOpen3D" -> StereoOpen3D_Handle(il, getRaise, conv, key)
      [] v = "ImageUtilityStereo" -> ImageUtilityStereo_Handle(il, getRaise, conv, key)
      [] v = "refinement" -> refinement_Handle(il, getRaise, conv, key)
      [] v = "EndToEnd" -> EndToEnd_Handle(il, getRaise, conv, key)
      [] v = "FoundationStereo" -> FoundationStereo_Handle(il, getRaise, conv, key)

\* image_list = cam.GetNextImageSync(2000)
AcqGetNextImageSync ==
    /\ acqPc = "fetch"
    /\ acqRequests < MaxRequests
    /\ acqRequests' = acqRequests + 1
    /\ \/ \E il \in ImageLists :
            /\ image_list' = il
            /\ acqFetch' = "ok"
            /\ acqPc' = "handle"
            /\ console' = {}
       \/ /\ image_list' = NoImageList
          /\ acqFetch' = "raise"
          /\ acqPc' = OnFetchError(acqVariant).next
          /\ console' = OnFetchError(acqVariant).console
    /\ acqHandled' = 0
    /\ acqEffects' = {}
    /\ UNCHANGED acqVariant
    /\ UNCHANGED notAcq

\* the rest of the loop body, up to continue, break or the end of the body
AcqHandle ==
    /\ acqPc = "handle"
    /\ \E getRaise \in BOOLEAN, conv \in BOOLEAN, key \in {"none", "s", "esc"} :
         LET out == Handle(acqVariant, image_list, getRaise, conv, key) IN
           /\ console' = out.console
           /\ acqEffects' = acqEffects \cup out.effects
           /\ acqPc' = out.next
    /\ acqHandled' = acqHandled + 1
    /\ UNCHANGED <<acqVariant, acqRequests, image_list, acqFetch>>
    /\ UNCHANGED notAcq

\* cam.EndAcquisition() after the loop (in the finally block of the two
\* deep-learning examples, which also runs when an exception leaves the loop)
AcqEndAcquisition ==
    /\ acqPc \in {"ended", "crashed"}
    /\ acqPc = "crashed" => acqVariant \in {"EndToEnd", "FoundationStereo"}
    /\ acqPc' = IF acqPc = "ended" THEN "returned" ELSE "raised"
    /\ console' = {}
    /\ UNCHANGED <<acqVariant, acqRequests, image_list, acqFetch, acqHandled,
                   acqEffects>>
    /\ UNCHANGED notAcq

AcqNext ==
    \/ AcqGetNextImageSync
    \/ AcqHandle
    \/ AcqEndAcquisition

\* ------------------------------------------------------------------------
\* ImageUtilityStereo.py : mouse_callback
\* ------------------------------------------------------------------------
Events == {"EVENT_MOUSEMOVE", "EVENT_LBUTTONDOWN", "EVENT_LBUTTONUP"}

\* values ComputeDistanceBetweenPoints returns: 0 is not usable (falsy)
Distances == {0, 7}

NoMeasurement == [p1 |-> <<>>, p2 |-> <<>>, d |-> 0]
NoCallback == [event |-> "none", accepted |-> FALSE, before |-> 0,
               computed |-> FALSE, dist |-> 0]

\* scale = 2
scale == 2

ClickStart ==
    /\ clicked_points = <<>>
    /\ global_disp_image_ptr = None
    /\ global_measurement = NoMeasurement
    /\ global_mouse_x = 0
    /\ global_mouse_y = 0
    /\ text_point = <<>>
    /\ lastCallback = NoCallback

ClickIdle == ClickStart

\* the EVENT_LBUTTONDOWN branch: append, and with two points compute the
\* distance, keep it when usable, and reset the list
OnLeftButtonDown_ResetWhenUsable(points, measurement, pt, dist_between) ==
    LET appended == Append(points, pt) IN
    IF Len(appended) = 2
    THEN [clicked_points |-> IF dist_between # 0 THEN <<>> ELSE appended,
          global_measurement |->
              IF dist_between # 0
              THEN [p1 |-> appended[1], p2 |-> appended[2], d |-> dist_between]
              ELSE measurement,
          computed |-> TRUE]
    ELSE [clicked_points |-> appended, global_measurement |-> measurement,
          computed |-> FALSE]
OnLeftButtonDown(points, measurement, pt, dist_between) ==
    LET appended == Append(points, pt) IN
    IF Len(appended) = 2
    THEN [clicked_points |-> <<>>,
          global_measurement |->
              IF dist_between # 0
              THEN [p1 |-> appended[1], p2 |-> appended[2], d |-> dist_between]
              ELSE measurement,
          computed |-> TRUE]
    ELSE [clicked_points |-> appended, global_measurement |-> measurement,
          computed |-> FALSE]

\* acquire_images: global_rect_left_image_resized and global_disp_image_ptr
\* are set for the frame being displayed
ClickShowFrame ==
    /\ global_disp_image_ptr' = 1
    /\ UNCHANGED <<clicked_points, global_measurement, global_mouse_x,
                   global_mouse_y, text_point, lastCallback>>
    /\ UNCHANGED notClick

\* mouse_callback(event, x, y, flags, param)
\* ndarrayRaise: global_disp_image_ptr.GetNDArray() raises
mouse_callback ==
    \E event \in Events, x \in 0..MaxCoord, y \in 0..MaxCoord,
       ndarrayRaise \in BOOLEAN, dist_between \in Distances :
      LET x_orig == x * scale
          y_orig == y * scale
          returnsEarly ==
              \/ global_disp_image_ptr = None
              \/ ndarrayRaise
              \/ y_orig >= DispRows
              \/ x_orig >= DispCols
          click == OnLeftButtonDown(clicked_points, global_measurement,
                                    <<x, y>>, dist_between)
      IN
        /\ global_mouse_x' = x
        /\ global_mouse_y' = y
        /\ IF returnsEarly
           THEN /\ UNCHANGED <<clicked_points, global_measurement, text_point>>
                /\ lastCallback' = [event |-> event, accepted |-> FALSE,
                                    before |-> Len(clicked_points),
                                    computed |-> FALSE, dist |-> 0]
           ELSE /\ text_point' = IF event = "EVENT_MOUSEMOVE"
                                 THEN <<x_orig, y_orig>> ELSE text_point
                /\ IF event = "EVENT_LBUTTONDOWN"
                   THEN /\ clicked_points' = click.clicked_points
                        /\ global_measurement' = click.global_measurement
                        /\ lastCallback' =
                             [event |-> event, accepted |-> TRUE,
                              before |-> Len(clicked_points),
                              computed |-> click.computed,
                              dist |-> IF click.computed THEN dist_between ELSE 0]
                   ELSE /\ UNCHANGED <<clicked_points, global_measurement>>
                        /\ lastCallback' = [event |-> event, accepted |-> TRUE,
                                            before |-> Len(clicked_points),
                                            computed |-> FALSE, dist |-> 0]
        /\ UNCHANGED global_disp_image_ptr
        /\ UNCHANGED notClick

ClickNext ==
    \/ ClickShowFrame
    \/ mouse_callback

\* ------------------------------------------------------------------------
\* End to End Deep Stereo / Foundation Stereo : disparity_to_pointcloud
\* ------------------------------------------------------------------------
\* MAX_DEPTH = 10.0
MAX_DEPTH == 10
\* the 1e-6 of MIN_DISP, as EpsNum / EpsDen pixel
EpsNum == 1
EpsDen == 1000000
\* disp * 256.0
FixedPointScale == 256
\* np.int16
Int16Min == -32768
Int16Max == 32767
Int16Span == 65536

UnitsPerPixel == FixedPointScale * SubSteps

\* disparities of a frame: -200 px, 0, one unit, just above 1/256 px, 128 px
DispValues == {-200 * UnitsPerPixel, 0, 1, SubSteps + 1, 128 * UnitsPerPixel}
FocalBaselines == {0, 25, 40}
DispFrames == UNION {[1..n -> DispValues] : n \in 0..MaxPixels}

\* left_img_bgr: the colour <<b, g, r>> of pixel i, each 0..255
left_img_bgr(i) == <<(i * 100) % 256, (i * 50) % 256, (i * 25) % 256>>

\* left_img_bgr.astype(np.float32)[:, :, ::-1] / 255.0 : <<r, g, b>> in 1/255
BgrToRgb(c) == <<c[3], c[2], c[1]>>

\* float -> integer conversion truncates toward zero
Trunc(a, b) == IF a >= 0 THEN a \div b ELSE -((-a) \div b)

\* .astype(np.int16) of an integral float: values outside the int16 range are
\* undefined in C; builds wrap modulo 2^16 or saturate
astype_int16(t, castMode) ==
    IF Int16Min <= t /\ t <= Int16Max THEN t
    ELSE IF castMode = "wrap" THEN ((t - Int16Min) % Int16Span) + Int16Min
    ELSE IF t > 0 THEN Int16Max ELSE Int16Min

\* disp16 = (disp * 256.0).astype(np.int16)
ToDisp16(d, castMode) == astype_int16(Trunc(d * FixedPointScale, UnitsPerPixel), castMode)

\* cv2.filterSpeckles(disp16, 0, 1000, 256): the pixels of small blobs
\* (speckles) are set to newVal = 0
filterSpeckles(disp16, speckles) ==
    [i \in DOMAIN disp16 |-> IF i \in speckles THEN 0 ELSE disp16[i]]

\* disp = disp16.astype(np.float32) / 256.0
FromDisp16(v) == v * SubSteps

\* lines 110-112 of the End to End example; Foundation Stereo uses disp as is
Preprocess(variant, d, speckles, castMode) ==
    IF variant = "EndToEnd"
    THEN LET disp16 == filterSpeckles([i \in DOMAIN d |-> ToDisp16(d[i], castMode)], speckles)
         IN [i \in DOMAIN d |-> FromDisp16(disp16[i])]
    ELSE d

\* mask_valid = disp > MIN_DISP, MIN_DISP = max(1e-6, focalLength*baseline/MAX_DEPTH)
\* d is a whole number of units, so d > x exactly when d > floor(x)
AboveMinDisp_PositiveOnly(d, fb) == d > 0
AboveMinDisp(d, fb) ==
    /\ d > (EpsNum * UnitsPerPixel) \div EpsDen
    /\ d * MAX_DEPTH > fb

\* the elements of seq at the (1-based) positions in keep, from i on, in order
RECURSIVE SelectAt(_, _, _)
SelectAt(seq, keep, i) ==
    IF i > Len(seq) THEN <<>>
    ELSE (IF i \in keep THEN <<seq[i]>> ELSE <<>>) \o SelectAt(seq, keep, i + 1)

\* cv2.reprojectImageTo3D(disp, Q) for pixel i, after the sign flips of
\* y and z: Z = -focalLength*baseline/d, kept as the fraction zNum/zDen
Point(i, d, fb) == [pix |-> i, d |-> d, zNum |-> -fb, zDen |-> d]

\* pts[::decimation]
Decimate_Floor(seq, k) ==
    IF k > 1
    THEN SelectAt(seq, {i \in DOMAIN seq : i % k = 0}, 1)
    ELSE seq
Decimate_Off(seq, k) == seq
Decimate(seq, k) ==
    IF k > 1
    THEN SelectAt(seq, {i \in DOMAIN seq : (i - 1) % k = 0}, 1)
    ELSE seq

\* disparity_to_pointcloud from mask_valid on
disparity_to_pointcloud(d, fb, k) ==
    LET all == [i \in DOMAIN d |-> i]
        mask_valid == {i \in DOMAIN d : AboveMinDisp(d[i], fb)}
        valid == SelectAt(all, mask_valid, 1)
        allPts == [j \in DOMAIN valid |-> Point(valid[j], d[valid[j]], fb)]
        allCols == [j \in DOMAIN valid |-> BgrToRgb(left_img_bgr(valid[j]))]
    IN [pts |-> Decimate(allPts, k), colors |-> Decimate(allCols, k)]

\* ---- write_ply -------------------------------------------------------------
NoFile == [exists |-> FALSE, closed |-> FALSE, lines |-> <<>>]
Line(text, arg) == [text |-> text, arg |-> arg]

Header_NoEndHeader(n) ==
    << Line("ply", <<>>),
       Line("format ascii 1.0", <<>>),
       Line("element vertex", <<n>>),
       Line("property float x", <<>>),
       Line("property float y", <<>>),
       Line("property float z", <<>>),
       Line("property uchar red", <<>>),
       Line("property uchar green", <<>>),
       Line("property uchar blue", <<>>) >>
Header(n) ==
    << Line("ply", <<>>),
       Line("format ascii 1.0", <<>>),
       Line("element vertex", <<n>>),
       Line("property float x", <<>>),
       Line("property float y", <<>>),
       Line("property float z", <<>>),
       Line("property uchar red", <<>>),
       Line("property uchar green", <<>>),
       Line("property uchar blue", <<>>),
       Line("end_header", <<>>) >>

\* colors_u8 = np.clip(colors_rgb * 255.0, 0, 255).astype(np.uint8), per channel
clip_u8(c) == IF c < 0 THEN 0 ELSE IF c > 255 THEN 255 ELSE c
colors_u8(rgb) == <<clip_u8(rgb[1]), clip_u8(rgb[2]), clip_u8(rgb[3])>>

\* for (x, y, z), (r, g, b) in zip(points_xyz, colors_u8): one line each;
\* the coordinates are those of Point: pixel, disparity and the fraction Z
DataLines(points, cols) ==
    [j \in 1..(IF Len(points) < Len(cols) THEN Len(points) ELSE Len(cols)) |->
        Line("%f %f %f %d %d %d",
             <<points[j].pix, points[j].d, <<points[j].zNum, points[j].zDen>>>>
                 \o colors_u8(cols[j]))]

\* what the operating system does to the file operations of write_ply
IoOutcomes == {"ok", "open", "write"}

\* the file after `with open(filename, 'w') as f:` whose body wrote `done`
\* and left normally or by an exception: the with statement closes it
WithFile_NeverClosed(done) == [exists |-> TRUE, closed |-> FALSE, lines |-> done]
WithFile(done) == [exists |-> TRUE, closed |-> TRUE, lines |-> done]

\* write_ply(filename, points_xyz, colors_rgb); io: open() raises, a write
\* raises after `written` complete lines, or all succeed
write_ply_NoEarlyReturn(points, cols, io, written) ==
    LET all == Header(Len(points)) \o DataLines(points, cols)
    IN IF io = "open"
       THEN [file |-> NoFile, console |-> "", raised |-> TRUE, io |-> "open"]
       ELSE IF io = "write" /\ written < Len(all)
       THEN [file |-> WithFile(SubSeq(all, 1, written)), console |-> "",
             raised |-> TRUE, io |-> "write"]
       ELSE [file |-> WithFile(all), console |-> "[PLY] Saved",
             raised |-> FALSE, io |-> "ok"]
write_ply(points, cols, io, written) ==
    LET all == Header(Len(points)) \o DataLines(points, cols)
    IN IF Len(points) = 0
       THEN [file |-> NoFile, console |-> "[PLY] No points to save",
             raised |-> FALSE, io |-> "ok"]
       ELSE IF io = "open"
       THEN [file |-> NoFile, console |-> "", raised |-> TRUE, io |-> "open"]
       ELSE IF io = "write" /\ written < Len(all)
       THEN [file |-> WithFile(SubSeq(all, 1, written)), console |-> "",
             raised |-> TRUE, io |-> "write"]
       ELSE [file |-> WithFile(all), console |-> "[PLY] Saved",
             raised |-> FALSE, io |-> "ok"]

CloudIdle ==
    /\ cloudVariant = "EndToEnd"
    /\ cloudPc = "idle"
    /\ disp = <<>>
    /\ focalBaseline = 0
    /\ decimation = 1
    /\ disp_masked = <<>>
    /\ pts = <<>>
    /\ colors = <<>>
    /\ plyFile = NoFile
    /\ plyConsole = ""
    /\ plyIoError = "ok"

\* the 's' key was pressed: a disparity frame is about to be saved
CloudStart ==
    /\ cloudVariant \in {"EndToEnd", "FoundationStereo"}
    /\ cloudPc = "input"
    /\ disp \in DispFrames
    /\ focalBaseline \in FocalBaselines
    /\ decimation \in 1..MaxDecimation
    /\ disp_masked = <<>>
    /\ pts = <<>>
    /\ colors = <<>>
    /\ plyFile = NoFile
    /\ plyConsole = ""
    /\ plyIoError = "ok"

\* pts, cols = disparity_to_pointcloud(disp, left_cv, stereo_params, decimation)
CloudDisparityToPointcloud ==
    /\ cloudPc = "input"
    /\ \E speckles \in SUBSET (DOMAIN disp), castMode \in {"wrap", "saturate"} :
         LET d == Preprocess(cloudVariant, disp, speckles, castMode)
             out == disparity_to_pointcloud(d, focalBaseline, decimation)
         IN /\ disp_masked' = d
            /\ pts' = out.pts
            /\ colors' = out.colors
    /\ cloudPc' = "cloud"
    /\ UNCHANGED <<cloudVariant, disp, focalBaseline, decimation, plyFile, plyConsole,
                   plyIoError>>
    /\ UNCHANGED notCloud

\* write_ply(ply_path, pts, cols) called from main; neither main loop
\* catches what open() or f.write() raise, so a raise ("raised") leaves main
CloudWritePly ==
    /\ cloudPc = "cloud"
    /\ \E io \in IoOutcomes, written \in 0..(Len(Header(0)) + Len(pts) - 1) :
         LET out == write_ply(pts, colors, io, written)
         IN /\ plyFile' = out.file
            /\ plyConsole' = out.console
            /\ plyIoError' = out.io
            /\ cloudPc' = IF out.raised THEN "raised" ELSE "written"
    /\ UNCHANGED <<cloudVariant, disp, focalBaseline, decimation, disp_masked,
                   pts, colors>>
    /\ UNCHANGED notCloud

CloudNext ==
    \/ CloudDisparityToPointcloud
    \/ CloudWritePly

\* ------------------------------------------------------------------------
\* Colorization: StereoOpenCV, ImageUtilityStereo, refinement and the two
\* deep-learning examples.  Disparities of refinement are in raw camera
\* units of 1/DispScale pixel.
\* ------------------------------------------------------------------------
\* MAX_DEPTH = 10 of refinement.py, metres
Ref_MAX_DEPTH == 10
\* MAX_DEPTH = 20000 of ImageUtilityStereo.py, mm
IUS_MAX_DEPTH == 20000
\* disparity_cv_image.astype(np.float32) / 64.0
DispScale == 64
\* the largest np.uint8
PaletteTop == 255
Uint8Span == 256

\* a second value the camera may report as Scan3dInvalidDataValue
InvalidAlt == 2
RawValues == {-DispScale, 0, InvalidAlt, DispScale * InvalidAlt, 4 * DispScale}
DepthValues == {0, InvalidAlt, IUS_MAX_DEPTH \div 2, IUS_MAX_DEPTH, IUS_MAX_DEPTH + 1}
ColorVariants == {"StereoOpenCV", "ImageUtilityStereo", "refinement",
                  "EndToEnd", "FoundationStereo"}
ColorFrames(values) == [1..MaxColorPixels -> values]

\* [0, 0, 0]
Black == [palette |-> "black", index |-> 0]
\* cv2.applyColorMap(index, cv2.COLORMAP_JET): no entry of the palette is black
applyColorMap(index) == [palette |-> "jet", index |-> index]

\* one colour image: the frame it was made from, the depth field as
\* fractions <<num, den>>, the palette indices and the colours
Panel(input, depth, index, image) ==
    [input |-> input, depth |-> depth, index |-> index, image |-> image]

\* .astype(np.uint8) of a non-negative whole number
astype_uint8(t) == t % Uint8Span

SeqMax(f) == CHOOSE m \in {f[i] : i \in DOMAIN f} : \A i \in DOMAIN f : f[i] <= m
SeqMin(f) == CHOOSE m \in {f[i] : i \in DOMAIN f} : \A i \in DOMAIN f : m <= f[i]
\* rounding to nearest of a / b, b > 0
Round(a, b) == IF a >= 0 THEN (2 * a + b) \div (2 * b) ELSE -((2 * (-a) + b) \div (2 * b))
Clip(t, lo, hi) == IF t < lo THEN lo ELSE IF t > hi THEN hi ELSE t

\* ---- End to End / Foundation Stereo ------------------------------------
\* dmax = max(1e-6, float(np.max(disp)))
\* disp_norm = np.clip(disp / dmax * 255.0, 0, 255).astype(np.uint8)
DL_Index(v, frame) ==
    IF SeqMax(frame) <= 0
    THEN 0
    ELSE astype_uint8(Clip(Trunc(v * PaletteTop, SeqMax(frame)), 0, PaletteTop))

DL_Colorize(frame) ==
    LET index == [i \in DOMAIN frame |-> DL_Index(frame[i], frame)]
    IN [display |-> Panel(frame, [i \in DOMAIN frame |-> <<frame[i], 1>>], index,
                          [i \in DOMAIN frame |-> applyColorMap(index[i])])]

\* ---- StereoOpenCV ------------------------------------------------------
\* cv2.normalize(image, None, 0, 255, cv2.NORM_MINMAX).astype(np.uint8)
OCV_Index(v, frame) ==
    IF SeqMax(frame) = SeqMin(frame)
    THEN 0
    ELSE astype_uint8(Round((v - SeqMin(frame)) * PaletteTop, SeqMax(frame) - SeqMin(frame)))

\* the display image (lines 315-318) and the colour image of
\* save_disparity_image (lines 386-388)
OCV_Colorize(frame) ==
    LET index == [i \in DOMAIN frame |-> OCV_Index(frame[i], frame)]
        depth == [i \in DOMAIN frame |-> <<frame[i], 1>>]
    IN [display |-> Panel(frame, depth, index,
                          [i \in DOMAIN frame |->
                              IF frame[i] = 0 THEN Black ELSE applyColorMap(index[i])]),
        saved |-> Panel(frame, depth, index,
                        [i \in DOMAIN frame |-> applyColorMap(index[i])])]

\* ---- ImageUtilityStereo ------------------------------------------------
\* depth_clipped = np.clip(depth, 0, MAX_DEPTH)
\* cv2.convertScaleAbs(depth_clipped, alpha=(255.0/MAX_DEPTH)): |x| rounded
\* and saturated to 8 bits
IUS_Index(v) ==
    Clip(Round(Clip(v, 0, IUS_MAX_DEPTH) * PaletteTop, IUS_MAX_DEPTH), 0, PaletteTop)

IUS_Colorize(frame) ==
    LET index == [i \in DOMAIN frame |-> IUS_Index(frame[i])]
        mask_valid == {i \in DOMAIN frame : frame[i] >= 0 /\ frame[i] <= IUS_MAX_DEPTH}
    IN [display |-> Panel(frame, [i \in DOMAIN frame |-> <<frame[i], 1>>], index,
                          [i \in DOMAIN frame |->
                              IF i \in mask_valid THEN applyColorMap(index[i]) ELSE Black])]

\* ---- refinement --------------------------------------------------------
RefinedValues == {-DispScale, 0, 4 * DispScale}
FocalBaselinesRef == {10}

\* arr[arr != stereo_params.invalidDataValue] += stereo_params.coordinateOffset
\* on an array of disparities in pixels, i.e. raw / 64
AddOffset(arr, invalid, offset) ==
    [i \in DOMAIN arr |->
        IF arr[i] = DispScale * invalid THEN arr[i] ELSE arr[i] + DispScale * offset]

\* np.where(disp > 0, focalLength * baseline / disp, 0), metres as a fraction
Ref_Depth(c, fb) == IF c > 0 THEN <<DispScale * fb, c>> ELSE <<0, 1>>

\* np.clip(depth, 0, MAX_DEPTH)
DepthClip_None(dep) == dep
DepthClip(dep) == IF dep[1] > Ref_MAX_DEPTH * dep[2] THEN <<Ref_MAX_DEPTH, 1>> ELSE dep

\* 255 - ((depth_clipped / MAX_DEPTH) * 255).astype(np.uint8)
Ref_Index(dep) ==
    PaletteTop - astype_uint8(Trunc(DepthClip(dep)[1] * PaletteTop,
                                    DepthClip(dep)[2] * Ref_MAX_DEPTH))

\* lines 304-310 and 321-327: the image of the disparities arr, black at
\* the positions in blackAt
Ref_Colorize(input, arr, fb, blackAt) ==
    LET depth == [i \in DOMAIN arr |-> Ref_Depth(arr[i], fb)]
        index == [i \in DOMAIN arr |-> Ref_Index(depth[i])]
    IN Panel(input, depth, index,
             [i \in DOMAIN arr |-> IF i \in blackAt THEN Black ELSE applyColorMap(index[i])])

\* float('inf')
Inf == <<1, 0>>
\* published: the refined disparity of the pixel as the worker published it
NoHover == [pix |-> 0, sgm |-> Inf, refined |-> Inf, published |-> 0]
\* focalLength * baseline / val if val > 0 else float('inf')
HoverDistance(val, fb) == IF val > 0 THEN <<DispScale * fb, val>> ELSE Inf

\* one iteration of the render loop of refinement.py, lines 287-344;
\* speckle: the pixel filterSpeckles zeroes (0: none); mouse: the hovered
\* pixel (0: outside the image)
refinement_Render(raw, speckle, invalid, offset, fb, has, published, latest, mouse) ==
    LET SGM_disp_cleaned == AddOffset(filterSpeckles(raw, {speckle}), invalid, offset)
        zeros == [i \in DOMAIN raw |-> 0]
        refined_arr == AddOffset(IF has THEN latest ELSE zeros, invalid, offset)
        sgmBlack == {i \in DOMAIN raw : SGM_disp_cleaned[i] = DispScale * invalid}
        refBlack == IF has
                    THEN {i \in DOMAIN raw : refined_arr[i] = DispScale * invalid}
                    ELSE {}
    IN [panels |-> [sgm |-> Ref_Colorize(raw, SGM_disp_cleaned, fb, sgmBlack),
                    refined |-> Ref_Colorize(IF has THEN latest ELSE zeros,
                                             refined_arr, fb, refBlack)],
        latest |-> IF has THEN refined_arr ELSE latest,
        hover |-> IF mouse = 0
                  THEN NoHover
                  ELSE [pix |-> mouse,
                        sgm |-> HoverDistance(raw[mouse], fb),
                        refined |-> HoverDistance(IF has THEN refined_arr[mouse] ELSE 0, fb),
                        published |-> IF has THEN published[mouse] ELSE 0]]

NoPanels == [display |-> Panel(<<>>, <<>>, <<>>, <<>>)]

ColorIdle ==
    /\ colVariant = "EndToEnd"
    /\ colPc = "idle"
    /\ colField = <<>>
    /\ colInvalid = 0
    /\ colOffset = 0
    /\ colFb = 0
    /\ colHasRefined = FALSE
    /\ colPublished = <<>>
    /\ colLatest = <<>>
    /\ colPanels = NoPanels
    /\ colHover = NoHover
    /\ colRenders = 0

\* a frame has arrived and is about to be shown
ColorStart ==
    /\ colVariant \in ColorVariants
    /\ colPc = "input"
    /\ colInvalid \in {0, InvalidAlt}
    /\ colField \in ColorFrames(IF colVariant = "ImageUtilityStereo" THEN DepthValues
                                ELSE IF colVariant = "StereoOpenCV" THEN RawValues \ {-DispScale}
                                ELSE RawValues)
    /\ colOffset \in IF colVariant = "refinement" THEN {0, 1} ELSE {0}
    /\ colFb \in IF colVariant = "refinement" THEN FocalBaselinesRef ELSE {0}
    /\ colHasRefined = FALSE
    /\ colPublished = <<>>
    /\ colLatest = <<>>
    /\ colPanels = NoPanels
    /\ colHover = NoHover
    /\ colRenders = 0

\* refinement_inference_thread publishes a refined disparity (lines 231-234)
ColorPublish ==
    /\ colVariant = "refinement"
    /\ colPc \in {"input", "shown"}
    /\ colRenders < MaxRenders
    /\ \E published \in ColorFrames(RefinedValues) :
         /\ colLatest' = published
         /\ colPublished' = published
    /\ colHasRefined' = TRUE
    /\ UNCHANGED <<colVariant, colPc, colField, colInvalid, colOffset, colFb,
                   colPanels, colHover, colRenders>>
    /\ UNCHANGED notColor

\* the colorization of one loop iteration
ColorRender ==
    /\ colPc \in {"input", "shown"}
    /\ colRenders < MaxRenders
    /\ colRenders' = colRenders + 1
    /\ colPc' = "shown"
    /\ \/ /\ colVariant \in {"EndToEnd", "FoundationStereo"}
          /\ colPanels' = DL_Colorize(colField)
          /\ UNCHANGED <<colLatest, colHover>>
       \/ /\ colVariant = "StereoOpenCV"
          /\ colPanels' = OCV_Colorize(colField)
          /\ UNCHANGED <<colLatest, colHover>>
       \/ /\ colVariant = "ImageUtilityStereo"
          /\ colPanels' = IUS_Colorize(colField)
          /\ UNCHANGED <<colLatest, colHover>>
       \/ /\ colVariant = "refinement"
          /\ \E speckle \in 0..Len(colField), mouse \in 0..Len(colField) :
               LET out == refinement_Render(colField, speckle, colInvalid, colOffset,
                                            colFb, colHasRefined, colPublished, colLatest,
                                            mouse)
               IN /\ colPanels' = out.panels
                  /\ colLatest' = out.latest
                  /\ colHover' = out.hover
    /\ UNCHANGED <<colVariant, colField, colInvalid, colOffset, colFb, colHasRefined,
                   colPublished>>
    /\ UNCHANGED notColor

ColorNext ==
    \/ ColorPublish
    \/ ColorRender

\* ------------------------------------------------------------------------
\* Esc: StereoOpenCV, ImageUtilityStereo and refinement read the keyboard
\* with cv2.waitKey(1) at the end of the loop body
\* ------------------------------------------------------------------------
EscVariants == {"StereoOpenCV", "ImageUtilityStereo", "refinement"}

EscIdle ==
    /\ escVariant = "StereoOpenCV"
    /\ escPc = "idle"
    /\ escPending = FALSE
    /\ escImageList = NoImageList
    /\ escConsole = {}

\* cam.BeginAcquisition() done, the loop is entered
EscStart ==
    /\ escVariant \in EscVariants
    /\ escPc = "fetch"
    /\ escPending = FALSE
    /\ escImageList = NoImageList
    /\ escConsole = {}

\* the user presses Esc in the window: the key waits for the next cv2.waitKey
EscPress ==
    /\ escPc \in {"fetch", "handle"}
    /\ ~escPending
    /\ escPending' = TRUE
    /\ UNCHANGED <<escVariant, escPc, escImageList, escConsole>>
    /\ UNCHANGED notEsc

\* image_list = cam.GetNextImageSync(2000): an image set, or SpinnakerException
EscGetNextImageSync ==
    /\ escPc = "fetch"
    /\ \/ \E il \in ImageLists :
            /\ escImageList' = il
            /\ escPc' = "handle"
            /\ escConsole' = {}
       \/ /\ escImageList' = NoImageList
          /\ escPc' = OnFetchError(escVariant).next
          /\ escConsole' = OnFetchError(escVariant).console
    /\ UNCHANGED <<escVariant, escPending>>
    /\ UNCHANGED notEsc

\* the rest of the loop body; cv2.waitKey(1) is reached only when the images
\* were shown, and returns the pending Esc
EscHandle ==
    /\ escPc = "handle"
    /\ \E getRaise \in BOOLEAN, conv \in BOOLEAN, other \in {"none", "s"} :
         LET key == IF escPending THEN "esc" ELSE other
             out == Handle(escVariant, escImageList, getRaise, conv, key)
         IN /\ escConsole' = out.console
            /\ escPc' = out.next
            /\ escPending' = IF "display" \in out.effects THEN FALSE ELSE escPending
    /\ UNCHANGED <<escVariant, escImageList>>
    /\ UNCHANGED notEsc

\* except KeyboardInterrupt: print("Exiting acquisition loop..."); break
EscKeyboardInterrupt ==
    /\ escPc \in {"fetch", "handle"}
    /\ escPc' = "ended"
    /\ escConsole' = {"Exiting acquisition loop..."}
    /\ UNCHANGED <<escVariant, escPending, escImageList>>
    /\ UNCHANGED notEsc

\* cam.EndAcquisition()
EscEndAcquisition ==
    /\ escPc = "ended"
    /\ escPc' = "returned"
    /\ escConsole' = {}
    /\ UNCHANGED <<escVariant, escPending, escImageList>>
    /\ UNCHANGED notEsc

EscNext ==
    \/ EscPress
    \/ EscGetNextImageSync
    \/ EscHandle
    \/ EscKeyboardInterrupt
    \/ EscEndAcquisition

\* ------------------------------------------------------------------------
\* FileAccessUserSet.py
\* ------------------------------------------------------------------------
\* the chunk length the camera file access requires a multiple of
PadUnit == 4

FileSizes == 0..MaxFileBytes
BufferSizes == 1..MaxBufferBytes
\* cam.FileOperationStatus.GetValue() == FileOperationStatus_Success, or not
OpStatus == {"Success", "Failure"}
\* one executed camera operation: its name, the length requested, its status
CamOp(op, len, status) == [op |-> op, len |-> len, status |-> status]

FaIdle ==
    /\ faOp = "download"
    /\ faPc = "idle"
    /\ file_size = 0
    /\ cam_file_size = 0
    /\ intermediate_buffer_size = 1
    /\ data_size = 0
    /\ faOffset = 0
    /\ FileAccessLength = 1
    /\ num_remaining_bytes = 0
    /\ chunks = <<>>
    /\ camOps = <<>>
    /\ local_file = "none"
    /\ faReturn = "none"

\* download_user_set(cam, path) or upload_user_set(cam, path) is called;
\* data = np.fromfile(path, dtype=np.ubyte) on upload
FaStart ==
    /\ faOp \in {"download", "upload"}
    /\ faPc = "start"
    /\ file_size \in IF faOp = "upload" THEN FileSizes ELSE {0}
    /\ cam_file_size \in FileSizes
    /\ intermediate_buffer_size \in BufferSizes
    /\ data_size = file_size
    /\ faOffset = 0
    /\ FileAccessLength = intermediate_buffer_size
    /\ num_remaining_bytes = 0
    /\ chunks = <<>>
    /\ camOps = <<>>
    /\ local_file = "none"
    /\ faReturn = "none"

faSizes == <<file_size, cam_file_size, intermediate_buffer_size>>

\* a helper that executes one camera operation and returns False unless its
\* status is Success: control goes to `next`, or the function returns False
FaExecute(op, next) ==
    \E status \in OpStatus :
        /\ camOps' = Append(camOps, CamOp(op, 0, status))
        /\ IF status = "Success"
           THEN faPc' = next /\ faReturn' = faReturn
           ELSE faPc' = "done" /\ faReturn' = "False"

\* ---- upload_user_set ---------------------------------------------------
\* if cam.FileSize.GetValue() > 0: if not delete_cam_file(cam): return False
UploadDelete ==
    /\ faOp = "upload"
    /\ faPc = "start"
    /\ IF cam_file_size > 0
       THEN FaExecute("Delete", "open")
       ELSE faPc' = "open" /\ UNCHANGED <<camOps, faReturn>>
    /\ UNCHANGED <<faOp, faSizes, data_size, faOffset, FileAccessLength,
                   num_remaining_bytes, chunks, local_file>>
    /\ UNCHANGED notFa

\* if not open_file_to_write(cam): return False
UploadOpen ==
    /\ faOp = "upload"
    /\ faPc = "open"
    /\ FaExecute("OpenWrite", "pad")
    /\ UNCHANGED <<faOp, faSizes, data_size, faOffset, FileAccessLength,
                   num_remaining_bytes, chunks, local_file>>
    /\ UNCHANGED notFa

\* num_paddings = (data.size % intermediate_buffer_size) % 4
NumPaddings(size, buffer) == (size % buffer) % PadUnit

\* split_data(chunk_size): data[i:i+chunk_size] for i in range(0, len(data),
\* chunk_size); the length of the last chunk it yields, for len(data) > 0
LastChunkLength(size, chunk_size) ==
    IF size % chunk_size = 0 THEN chunk_size ELSE size % chunk_size

\* lines 257-274: num_remaining_bytes = data.size, then the data is padded
UploadPad ==
    /\ faOp = "upload"
    /\ faPc = "pad"
    /\ num_remaining_bytes' = data_size
    /\ data_size' = data_size + NumPaddings(data_size, intermediate_buffer_size)
    /\ faOffset' = 0
    /\ faPc' = "write"
    /\ UNCHANGED <<faOp, faSizes, FileAccessLength, chunks, camOps, local_file,
                   faReturn>>
    /\ UNCHANGED notFa

\* one iteration of `for chunk in split_data(intermediate_buffer_size)`:
\* chunk = data[i:i+chunk_size]; FileAccessLength is lowered to
\* num_remaining_bytes when the buffer is larger; size_written is taken to be
\* the FileAccessLength in force
UploadWrite ==
    /\ faOp = "upload"
    /\ faPc = "write"
    /\ faOffset < data_size
    /\ LET chunk == IF data_size - faOffset < intermediate_buffer_size
                    THEN data_size - faOffset
                    ELSE intermediate_buffer_size
           length == IF intermediate_buffer_size > num_remaining_bytes
                     THEN num_remaining_bytes
                     ELSE FileAccessLength
       IN /\ chunks' = Append(chunks, chunk)
          /\ FileAccessLength' = length
          /\ faOffset' = faOffset + intermediate_buffer_size
          /\ \E status \in OpStatus :
               /\ camOps' = Append(camOps, CamOp("Write", length, status))
               /\ IF status = "Success"
                  THEN /\ num_remaining_bytes' = num_remaining_bytes - length
                       /\ UNCHANGED <<faPc, faReturn>>
                  ELSE /\ faPc' = "done"
                       /\ faReturn' = "False"
                       /\ UNCHANGED num_remaining_bytes
    /\ UNCHANGED <<faOp, faSizes, data_size, local_file>>
    /\ UNCHANGED notFa

\* the generator is exhausted: close_cam_file(cam), whose result is not
\* looked at; return True
UploadClose ==
    /\ faOp = "upload"
    /\ faPc = "write"
    /\ faOffset >= data_size
    /\ \E status \in OpStatus : camOps' = Append(camOps, CamOp("Close", 0, status))
    /\ faPc' = "done"
    /\ faReturn' = "True"
    /\ UNCHANGED <<faOp, faSizes, data_size, faOffset, FileAccessLength,
                   num_remaining_bytes, chunks, local_file>>
    /\ UNCHANGED notFa

\* ---- download_user_set -------------------------------------------------
\* if not set_exposure(cam, 2000): return False
DownloadSetExposure ==
    /\ faOp = "download"
    /\ faPc = "start"
    /\ FaExecute("SetExposure", "save")
    /\ UNCHANGED <<faOp, faSizes, data_size, faOffset, FileAccessLength,
                   num_remaining_bytes, chunks, local_file>>
    /\ UNCHANGED notFa

\* save_to_user_set_zero whose failure is not looked at
DownloadSave_ResultIgnored ==
    /\ faOp = "download"
    /\ faPc = "save"
    /\ \E status \in OpStatus : camOps' = Append(camOps, CamOp("UserSetSave", 0, status))
    /\ faPc' = "open"
    /\ UNCHANGED <<faOp, faSizes, data_size, faOffset, FileAccessLength,
                   num_remaining_bytes, chunks, local_file, faReturn>>
    /\ UNCHANGED notFa

\* if not save_to_user_set_zero(cam): return False
DownloadSave ==
    /\ faOp = "download"
    /\ faPc = "save"
    /\ FaExecute("UserSetSave", "open")
    /\ UNCHANGED <<faOp, faSizes, data_size, faOffset, FileAccessLength,
                   num_remaining_bytes, chunks, local_file>>
    /\ UNCHANGED notFa

\* if not open_file_to_read(cam): return False
DownloadOpen ==
    /\ faOp = "download"
    /\ faPc = "open"
    /\ FaExecute("OpenRead", "size")
    /\ UNCHANGED <<faOp, faSizes, data_size, faOffset, FileAccessLength,
                   num_remaining_bytes, chunks, local_file>>
    /\ UNCHANGED notFa

\* the number of iterations without the one for the remainder
NumIter_NoRemainder(num_bytes_to_read, buffer) == num_bytes_to_read \div buffer

\* num_iter, remainder = divmod(num_bytes_to_read, intermediate_buffer_size)
\* if remainder != 0: num_iter += 1
NumIter(num_bytes_to_read, buffer) ==
    (num_bytes_to_read \div buffer) + (IF num_bytes_to_read % buffer # 0 THEN 1 ELSE 0)

\* lines 163-182: the sizes are read and the read loop is set up
DownloadSize ==
    /\ faOp = "download"
    /\ faPc = "size"
    /\ num_remaining_bytes' = cam_file_size
    /\ faOffset' = 0
    /\ faPc' = "read"
    /\ UNCHANGED <<faOp, faSizes, data_size, FileAccessLength, chunks, camOps,
                   local_file, faReturn>>
    /\ UNCHANGED notFa

\* one iteration of the read loop; size_read is what is left of the file, at
\* most one buffer
DownloadRead ==
    /\ faOp = "download"
    /\ faPc = "read"
    /\ faOffset < NumIter(cam_file_size, intermediate_buffer_size)
    /\ LET size_read == IF num_remaining_bytes < intermediate_buffer_size
                        THEN num_remaining_bytes
                        ELSE intermediate_buffer_size
       IN \E status \in OpStatus :
            /\ camOps' = Append(camOps, CamOp("Read", FileAccessLength, status))
            /\ IF status = "Success"
               THEN /\ chunks' = Append(chunks, size_read)
                    /\ num_remaining_bytes' = num_remaining_bytes - size_read
                    /\ faOffset' = faOffset + 1
                    /\ UNCHANGED <<faPc, faReturn>>
               ELSE /\ faPc' = "done"
                    /\ faReturn' = "False"
                    /\ UNCHANGED <<chunks, num_remaining_bytes, faOffset>>
    /\ UNCHANGED <<faOp, faSizes, data_size, FileAccessLength, local_file>>
    /\ UNCHANGED notFa

\* lines 196-204: close_cam_file(cam), whose result is not looked at, then
\* np.asarray(data).tofile(path), whose OSError no except clause catches;
\* return True
DownloadCloseAndSave ==
    /\ faOp = "download"
    /\ faPc = "read"
    /\ faOffset >= NumIter(cam_file_size, intermediate_buffer_size)
    /\ \E status \in OpStatus : camOps' = Append(camOps, CamOp("Close", 0, status))
    /\ \E tofile \in {"ok", "raise"} :
         /\ local_file' = IF tofile = "ok" THEN "written" ELSE "none"
         /\ faReturn' = IF tofile = "ok" THEN "True" ELSE "raised"
    /\ faPc' = "done"
    /\ UNCHANGED <<faOp, faSizes, data_size, faOffset, FileAccessLength,
                   num_remaining_bytes, chunks>>
    /\ UNCHANGED notFa

FaNext ==
    \/ UploadDelete
    \/ UploadOpen
    \/ UploadPad
    \/ UploadWrite
    \/ UploadClose
    \/ DownloadSetExposure
    \/ DownloadSave
    \/ DownloadOpen
    \/ DownloadSize
    \/ DownloadRead
    \/ DownloadCloseAndSave

\* ------------------------------------------------------------------------
\* FileAccessUserSet.py : parse_args and main
\* ------------------------------------------------------------------------
\* the words an argument can be
Words == {"upload", "download", "Upload", "DOWNLOAD", "erase", "UserSet0.bin"}

\* str.lower()
lower(word) ==
    CASE word = "Upload" -> "upload"
      [] word = "DOWNLOAD" -> "download"
      [] OTHER -> word

RECURSIVE ArgListsOf(_)
ArgListsOf(n) ==
    IF n = 0 THEN {<<>>}
    ELSE ArgListsOf(n - 1) \cup
         {Append(a, w) : a \in {b \in ArgListsOf(n - 1) : Len(b) = n - 1}, w \in Words}
ArgLists == ArgListsOf(MaxArgs)

\* parse_args(args): None (with the usage printed) unless there are exactly
\* two arguments and the first, lowered, is upload or download
parse_args(a) ==
    IF Len(a) # 2
    THEN [none |-> TRUE, args |-> <<>>]
    ELSE IF lower(a[1]) # "upload" /\ lower(a[1]) # "download"
         THEN [none |-> TRUE, args |-> <<>>]
         ELSE [none |-> FALSE, args |-> a]

\* what neither main nor the transfer it calls touches
notFaFm == <<refVars, acqVars, clickVars, cloudVars, colVars, escVars, tsVars, camVars>>

FmIdle ==
    /\ args = <<>>
    /\ fmPc = "idle"
    /\ num_cameras = 0
    /\ cam_touched = FALSE
    /\ transfers = <<>>
    /\ result = TRUE
    /\ fmConsole = <<>>

\* main(sys.argv[1:]) is called
FmStart ==
    /\ args \in ArgLists
    /\ fmPc = "start"
    /\ num_cameras \in {0, 1}
    /\ cam_touched = FALSE
    /\ transfers = <<>>
    /\ result = TRUE
    /\ fmConsole = <<>>

\* args = parse_args(args); if args is None: return
MainParseArgs ==
    /\ fmPc = "start"
    /\ IF parse_args(args).none
       THEN /\ fmConsole' = Append(fmConsole, "USAGE")
            /\ fmPc' = "returned"
       ELSE /\ fmPc' = "setup"
            /\ UNCHANGED fmConsole
    /\ UNCHANGED <<args, num_cameras, cam_touched, transfers, result>>
    /\ UNCHANGED notFm

\* lines 339-343: cam = cam_list[0], an IndexError with no camera, which
\* nothing catches; cam.Init(); result = True
MainSetup ==
    /\ fmPc = "setup"
    /\ IF num_cameras = 0
       THEN /\ fmPc' = "raised"
            /\ UNCHANGED cam_touched
       ELSE /\ fmPc' = "dispatch"
            /\ cam_touched' = TRUE
    /\ result' = TRUE
    /\ UNCHANGED <<args, num_cameras, transfers, fmConsole>>
    /\ UNCHANGED notFm

\* download_user_set(cam, path) or upload_user_set(cam, path) is entered from
\* main: the state FaStart describes, for the transfer called
FaCall(op) ==
    /\ faOp' = op
    /\ faPc' = "start"
    /\ file_size' \in IF op = "upload" THEN FileSizes ELSE {0}
    /\ cam_file_size' \in FileSizes
    /\ intermediate_buffer_size' \in BufferSizes
    /\ data_size' = file_size'
    /\ faOffset' = 0
    /\ FileAccessLength' = intermediate_buffer_size'
    /\ num_remaining_bytes' = 0
    /\ chunks' = <<>>
    /\ camOps' = <<>>
    /\ local_file' = "none"
    /\ faReturn' = "none"

\* lines 345-348: args[0] is compared as given, not lowered; the transfer
\* called starts in any of its start states
MainDispatch ==
    /\ fmPc = "dispatch"
    /\ IF args[1] \in {"download", "upload"}
       THEN /\ FaCall(args[1])
            /\ transfers' = Append(transfers, [op |-> args[1], path |-> args[2]])
            /\ fmPc' = "transfer"
       ELSE /\ fmPc' = "cleanup"
            /\ UNCHANGED <<faVars, transfers>>
    /\ UNCHANGED <<args, num_cameras, cam_touched, result, fmConsole>>
    /\ UNCHANGED notFaFm

\* the transfer has returned: result &= its value, or its exception leaves
\* main; lines 350-359: clean up and report
MainReport ==
    /\ \/ fmPc = "cleanup"
       \/ fmPc = "transfer" /\ faPc = "done"
    /\ IF fmPc = "transfer" /\ faReturn = "raised"
       THEN /\ fmPc' = "raised"
            /\ UNCHANGED <<result, fmConsole>>
       ELSE LET r == IF fmPc = "transfer" THEN result /\ faReturn = "True" ELSE result
            IN /\ result' = r
               /\ fmConsole' = Append(fmConsole,
                     IF r THEN "Example completed successfully!"
                          ELSE "Example completed with some errors.")
               /\ fmPc' = "returned"
    /\ UNCHANGED <<args, num_cameras, cam_touched, transfers>>
    /\ UNCHANGED notFm

FmNext ==
    \/ MainParseArgs
    \/ MainSetup
    \/ MainDispatch
    \/ MainReport
    \/ FaNext

\* ------------------------------------------------------------------------
\* CameraTimeToPCTime.py
\* ------------------------------------------------------------------------
NUM_IMAGES == 10
\* NEWER_CAMERAS = ['Blackfly S', 'Oryx', 'DL'], as sequences of fragments
NEWER_CAMERAS == << <<"Blackfly", " S">>, <<"Oryx">>, <<"DL">> >>
\* the fragments a model name is made of
NameFragments == {"Blackfly", " S", "Oryx", "DL", "Grasshopper3"}
\* the DeviceType values: GigE Vision, USB3 Vision, and one of the others
DeviceTypes == {"GEV", "U3V", "PCI"}

RECURSIVE NamesOf(_)
NamesOf(n) ==
    IF n = 0 THEN {<<>>}
    ELSE NamesOf(n - 1) \cup
         {Append(a, w) : a \in {b \in NamesOf(n - 1) : Len(b) = n - 1}, w \in NameFragments}
DeviceNames == NamesOf(MaxNameFragments) \ {<<>>}

\* `needle in name` of two strings
Contains(needle, name) ==
    \E at \in 0..(Len(name) - Len(needle)) :
        \A k \in 1..Len(needle) : name[at + k] = needle[k]

\* is_newer(cam_name)
is_newer(cam_name) ==
    \E k \in DOMAIN NEWER_CAMERAS : Contains(NEWER_CAMERAS[k], cam_name)

\* lines 151-159: the if / elif / elif without an else
SelectOffset(name, type) ==
    IF is_newer(name) THEN "calculate_offset_newer"
    ELSE IF type = "GEV" THEN "calculate_offset_older_gev"
    ELSE IF type = "U3V" THEN "calculate_offset_older_usb"
    ELSE "unbound"

TsIdle ==
    /\ device_name = <<>>
    /\ device_type = "GEV"
    /\ calculate_offset = "unbound"
    /\ tsPc = "idle"
    /\ tsImage = 0
    /\ offset_failed = FALSE
    /\ converted = 0
    /\ tsReturn = "none"

\* acquire_images(cam) is called
TsStart ==
    /\ device_name \in DeviceNames
    /\ device_type \in DeviceTypes
    /\ calculate_offset = "unbound"
    /\ tsPc = "start"
    /\ tsImage = 0
    /\ offset_failed = FALSE
    /\ converted = 0
    /\ tsReturn = "none"

\* except PySpin.SpinnakerException: print the error, return False
TsSpinnakerException ==
    /\ tsPc' = "done"
    /\ tsReturn' = "False"

\* lines 145-159: the device type and name are read and the offset function
\* is selected
TsSelect ==
    /\ tsPc = "start"
    /\ \/ /\ calculate_offset' = SelectOffset(device_name, device_type)
          /\ tsPc' = "begin"
          /\ UNCHANGED tsReturn
       \/ /\ TsSpinnakerException
          /\ UNCHANGED calculate_offset
    /\ UNCHANGED <<device_name, device_type, tsImage, offset_failed, converted>>
    /\ UNCHANGED notTs

\* cam.BeginAcquisition()
TsBeginAcquisition ==
    /\ tsPc = "begin"
    /\ \/ tsPc' = "loop" /\ UNCHANGED tsReturn
       \/ TsSpinnakerException
    /\ UNCHANGED <<device_name, device_type, calculate_offset, tsImage,
                   offset_failed, converted>>
    /\ UNCHANGED notTs

\* line 175: timestamp / NS_PER_S + calculate_offset(cam): the name is
\* unbound (UnboundLocalError), or the function returns None (TypeError of
\* the addition), or it returns the offset
ConvertTimestamp(offset) ==
    IF calculate_offset = "unbound" THEN "UnboundLocalError"
    ELSE IF offset = "None" THEN "TypeError"
    ELSE "converted"

\* one iteration of `for i in range(NUM_IMAGES)`
TsImage ==
    /\ tsPc = "loop"
    /\ tsImage < NUM_IMAGES
    /\ \E image \in {"raise", "incomplete", "complete"}, offset \in {"None", "value"} :
         CASE image = "raise" ->
                /\ TsSpinnakerException
                /\ UNCHANGED <<tsImage, offset_failed, converted>>
           [] image = "incomplete" ->
                /\ tsImage' = tsImage + 1
                /\ UNCHANGED <<tsPc, tsReturn, offset_failed, converted>>
           [] OTHER ->
                LET outcome == ConvertTimestamp(offset)
                IN /\ offset_failed' =
                        (offset_failed \/ (calculate_offset # "unbound" /\ offset = "None"))
                   /\ IF outcome = "converted"
                      THEN /\ converted' = converted + 1
                           /\ tsImage' = tsImage + 1
                           /\ UNCHANGED <<tsPc, tsReturn>>
                      ELSE /\ tsPc' = "done"
                           /\ tsReturn' = outcome
                           /\ UNCHANGED <<tsImage, converted>>
    /\ UNCHANGED <<device_name, device_type, calculate_offset>>
    /\ UNCHANGED notTs

\* the loop is over: return True
TsReturnTrue ==
    /\ tsPc = "loop"
    /\ tsImage >= NUM_IMAGES
    /\ tsPc' = "done"
    /\ tsReturn' = "True"
    /\ UNCHANGED <<device_name, device_type, calculate_offset, tsImage,
                   offset_failed, converted>>
    /\ UNCHANGED notTs

TsNext ==
    \/ TsSelect
    \/ TsBeginAcquisition
    \/ TsImage
    \/ TsReturnTrue

\* ------------------------------------------------------------------------
\* refinement.py : main
\* ------------------------------------------------------------------------
CamIdle ==
    /\ camera = 1
    /\ cameras = 1
    /\ camFirstFrame = 0

\* for i, cam in enumerate(cam_list): the first camera is being run
CamStart ==
    /\ camera = 1
    /\ cameras \in 1..MaxCameras
    /\ camFirstFrame = 0

\* run_single_camera has returned for one camera and main goes on to the
\* next: acquire_images is entered again, up to the start of the thread.
\* The module globals (exit_flag, lock, latest_*) are left as the previous
\* run left them; the locals of the new calls are fresh. After a failed
\* EndAcquisition the previous worker is taken to have ended by now.
RunNextCamera ==
    /\ \/ mainPc = "done"
       \/ mainPc = "failed" /\ workerPc = "done"
    /\ camera < cameras
    /\ camera' = camera + 1
    /\ camFirstFrame' = frameNo
    /\ mainPc' = "start"
    /\ workerPc' = "unstarted"
    /\ rect_left_cv_image' = None
    /\ refined_disp' = "zeros"
    /\ refined_left_snapshot' = None
    /\ sgm' = None
    /\ refined' = NoRefined
    /\ UNCHANGED <<lock, exit_flag, shared, frameNo, cameras>>
    /\ UNCHANGED <<acqVars, clickVars, cloudVars, colVars, escVars, faVars, fmVars, tsVars>>

RefInit == RefStart /\ AcqIdle /\ ClickIdle /\ CloudIdle /\ ColorIdle /\ EscIdle /\ FaIdle /\ FmIdle /\ TsIdle /\ CamIdle

RefNext == Main \/ Worker

Spec == RefInit /\ [][RefNext]_vars

\* the interpreter schedules both threads, run_refinement returns, and
\* EndAcquisition and join are reached as soon as the loop is left
SpecFair ==
    /\ Spec
    /\ WF_vars(Worker)
    /\ WF_vars(MainEndAcquisition)
    /\ WF_vars(MainJoin)

RefIdle == RefStart

AcqInit == AcqStart /\ RefIdle /\ ClickIdle /\ CloudIdle /\ ColorIdle /\ EscIdle /\ FaIdle /\ FmIdle /\ TsIdle /\ CamIdle

SpecAcq == AcqInit /\ [][AcqNext]_vars

ClickInit == ClickStart /\ RefIdle /\ AcqIdle /\ CloudIdle /\ ColorIdle /\ EscIdle /\ FaIdle /\ FmIdle /\ TsIdle /\ CamIdle

SpecClick == ClickInit /\ [][ClickNext]_vars

CloudInit == CloudStart /\ RefIdle /\ AcqIdle /\ ClickIdle /\ ColorIdle /\ EscIdle /\ FaIdle /\ FmIdle /\ TsIdle /\ CamIdle

SpecCloud == CloudInit /\ [][CloudNext]_vars

ColorInit == ColorStart /\ RefIdle /\ AcqIdle /\ ClickIdle /\ CloudIdle /\ EscIdle /\ FaIdle /\ FmIdle /\ TsIdle /\ CamIdle

SpecColor == ColorInit /\ [][ColorNext]_vars

EscInit == EscStart /\ RefIdle /\ AcqIdle /\ ClickIdle /\ CloudIdle /\ ColorIdle /\ FaIdle /\ FmIdle /\ TsIdle /\ CamIdle

SpecEsc == EscInit /\ [][EscNext]_vars

\* the loop keeps running: every step of it that can be taken is taken
SpecEscFair ==
    /\ SpecEsc
    /\ WF_vars(EscGetNextImageSync)
    /\ WF_vars(EscHandle)
    /\ WF_vars(EscEndAcquisition)

FaInit == FaStart /\ RefIdle /\ AcqIdle /\ ClickIdle /\ CloudIdle /\ ColorIdle /\ EscIdle /\ FmIdle /\ TsIdle /\ CamIdle

SpecFa == FaInit /\ [][FaNext]_vars

FmInit == FmStart /\ RefIdle /\ AcqIdle /\ ClickIdle /\ CloudIdle /\ ColorIdle /\ EscIdle /\ FaIdle /\ TsIdle /\ CamIdle

SpecFaMain == FmInit /\ [][FmNext]_vars

TsInit == TsStart /\ RefIdle /\ AcqIdle /\ ClickIdle /\ CloudIdle /\ ColorIdle /\ EscIdle /\ FaIdle /\ FmIdle /\ CamIdle

SpecTs == TsInit /\ [][TsNext]_vars

CamNext ==
    \/ RefNext
    \/ RunNextCamera

CamInit == CamStart /\ RefIdle /\ AcqIdle /\ ClickIdle /\ CloudIdle /\ ColorIdle /\ EscIdle /\ FaIdle /\ FmIdle /\ TsIdle

SpecCameras == CamInit /\ [][CamNext]_vars

\* ------------------------------------------------------------------------
\* Properties of refinement.py
\* ------------------------------------------------------------------------

WorkerHasSnapshot == workerPc \in {"infer", "lockResult", "pubDisp", "pubLeft", "sleep"}

C2_NoLockAcrossInference ==
    /\ lock = "worker" => workerPc \in {"test", "snapLeft", "snapDisp", "pubDisp", "pubLeft"}
    /\ lock = "main" => mainPc \in {"pubLeft", "pubDisp", "read"}
    /\ workerPc = "infer" => lock # "worker"
    /\ (workerPc = "infer" /\ mainPc \in {"lockPublish", "lockRead"}) => lock = "free"
    /\ lock = "worker" => ENABLED Worker
    /\ lock = "main" => ENABLED (MainPubLeft \/ MainPubDisp \/ MainRead)
    /\ (mainPc \notin {"done", "failed"} \/ workerPc # "done") => ENABLED RefNext

\* the render loop takes the lock to read the result while an inference runs
C2_Witness ==
    /\ workerPc = "infer"
    /\ mainPc = "read"
    /\ lock = "main"
    /\ latest_refined_disp # NoRefined

\* C3: once exit_flag is set the acquisition loop has stopped, the worker
\* starts no further iteration (it leaves its while loop at the next test of
\* the flag) and terminates, and ref_thread.join() returns once it is called.
C3_CooperativeShutdown ==
    /\ [](exit_flag => ~InMainLoop)
    /\ [][(exit_flag /\ workerPc = "check") => workerPc' \in {"check", "done"}]_vars
    /\ (exit_flag ~> (workerPc = "done"))
    /\ ((mainPc = "join") ~> (mainPc = "done"))

\* the flag was set, the worker finished and join has returned
C3_Witness ==
    /\ exit_flag
    /\ workerPc = "done"
    /\ mainPc = "done"
    /\ new_refined_available

\* ------------------------------------------------------------------------
\* Properties of the acquisition loops
\* ------------------------------------------------------------------------

\* the images a loop works on: rectified left and disparity, or, in the two
\* deep-learning examples, rectified left and rectified right
RequiredUnusable(v, il) ==
    IF v \in {"EndToEnd", "FoundationStereo"}
    THEN Unusable(il.left) \/ Unusable(il.right)
    ELSE Unusable(il.left) \/ Unusable(il.disp)

\* C4: in every acquisition loop a timeout or other failure raised by
\* GetNextImageSync(2000) is reported to the console, the frame is skipped
\* and the loop continues by requesting the next frame.
C4_LostFrameSkipped ==
    acqFetch = "raise" => (acqPc = "fetch" /\ console # {})

\* C5: whenever a required image of the frame is None or incomplete, the
\* iteration ends without converting, displaying, saving or publishing it,
\* and the image set is handled once only: control is back at
\* GetNextImageSync, which fetches a new frame.
C5_IncompleteNeverProcessed ==
    /\ acqHandled <= 1
    /\ (acqFetch = "ok" /\ RequiredUnusable(acqVariant, image_list)) =>
          /\ acqEffects = {}
          /\ acqHandled = 1 => acqPc = "fetch"

\* an incomplete right image has been skipped by the Foundation Stereo loop
C5_Witness ==
    /\ acqVariant = "FoundationStereo"
    /\ acqFetch = "ok"
    /\ image_list.left = "ok"
    /\ image_list.right = "incomplete"
    /\ acqHandled = 1
    /\ acqPc = "fetch"
    /\ console = {"Incomplete image(s), skipping"}

\* ------------------------------------------------------------------------
\* Properties of the mouse callback
\* ------------------------------------------------------------------------

CloudReturned == cloudPc \in {"cloud", "written", "raised"}
WritePlyOver == cloudPc \in {"written", "raised"}
CeilDiv(a, b) == (a + b - 1) \div b
\* the pixels that pass mask_valid
ValidPixels == {i \in DOMAIN disp_masked : AboveMinDisp(disp_masked[i], focalBaseline)}

\* C7, as stated: writing a point cloud of zero points produces, without
\* error, a file that holds the header with `element vertex 0` and no data
\* lines.
C7_EmptyCloudHeaderOnlyFile ==
    (WritePlyOver /\ Len(pts) = 0) =>
        /\ cloudPc = "written"
        /\ plyFile.exists
        /\ plyFile.lines = Header(0)

\* C7, amended: writing a point cloud of zero points returns without error,
\* prints "[PLY] No points to save" and creates no file.
C7_EmptyCloudNoFile ==
    (WritePlyOver /\ Len(pts) = 0) =>
        /\ cloudPc = "written"
        /\ plyFile = NoFile
        /\ plyConsole = "[PLY] No points to save"

\* an all-invalid frame of at least one pixel has been projected and written
C7_Witness ==
    /\ cloudPc = "written"
    /\ Len(disp) > 0
    /\ \A i \in DOMAIN disp : disp[i] <= 0
    /\ Len(pts) = 0
    /\ ~plyFile.exists

\* C8: with decimation factor k >= 1 the number of points returned is
\* ceil(valid_pixel_count / k), and points and colours have the same length.
C8_DecimatedCount ==
    CloudReturned =>
        /\ Len(pts) = Len(colors)
        /\ Len(pts) = CeilDiv(Cardinality(ValidPixels), decimation)

\* three valid pixels decimated by two leave two points
C8_Witness ==
    /\ cloudPc = "cloud"
    /\ decimation = 2
    /\ Cardinality(ValidPixels) = 3
    /\ Len(pts) = 2
    /\ Len(colors) = 2

\* C9, as stated: the number of points returned is at most
\* (input pixel count) / k.
C9_AtMostPixelsOverK ==
    CloudReturned => Len(pts) * decimation <= Len(disp)

\* C9, amended: the number of points returned is at most
\* ceil((input pixel count) / k).
C9_AtMostCeilPixelsOverK ==
    CloudReturned => Len(pts) <= CeilDiv(Len(disp), decimation)

\* a decimated frame whose point count exceeds pixels / k
C9_Witness ==
    /\ cloudPc = "cloud"
    /\ decimation > 1
    /\ Len(pts) * decimation > Len(disp)
    /\ Len(pts) < Len(disp)

C11_EveryValidPixelProjected ==
    CloudReturned =>
        \A i \in DOMAIN disp :
            AboveMinDisp(disp[i], focalBaseline) =>
                /\ i \in ValidPixels
                /\ decimation = 1 => \E j \in DOMAIN pts : pts[j].pix = i

C17_SaveFailureContained ==
    (WritePlyOver /\ plyIoError # "ok") =>
        /\ cloudPc = "written"
        /\ plyConsole \notin {"", "[PLY] Saved"}

\* ------------------------------------------------------------------------
\* Colorization and hover query
\* ------------------------------------------------------------------------
ColorShown == colPc = "shown"
\* the value v of a frame of the running script equals invalidDataValue
IsInvalidValue(v) ==
    IF colVariant = "refinement" THEN v = DispScale * colInvalid ELSE v = colInvalid

DepthPanels == IF colVariant \in {"refinement", "ImageUtilityStereo"} THEN DOMAIN colPanels ELSE {}
ConfiguredMax == IF colVariant = "refinement" THEN Ref_MAX_DEPTH ELSE IUS_MAX_DEPTH

\* C15, as stated: in refinement.py and ImageUtilityStereo.py every palette
\* index is in 0..255 and a depth equal to the configured maximum has
\* index 255.
C15_MaxMapsToTop ==
    ColorShown =>
        \A n \in DepthPanels :
            \A i \in DOMAIN colPanels[n].index :
                /\ colPanels[n].index[i] \in 0..255
                /\ colPanels[n].depth[i][1] = ConfiguredMax * colPanels[n].depth[i][2]
                       => colPanels[n].index[i] = 255

\* C15, amended: every palette index is in 0..255 and every depth at or
\* above the configured maximum has the index of the maximum, which is 255
\* in ImageUtilityStereo.py and 0 in refinement.py (index = 255 - scaled depth).
C15_MaxMapsToEnd ==
    ColorShown =>
        \A n \in DepthPanels :
            \A i \in DOMAIN colPanels[n].index :
                /\ colPanels[n].index[i] \in 0..255
                /\ colPanels[n].depth[i][1] >= ConfiguredMax * colPanels[n].depth[i][2]
                       => colPanels[n].index[i] =
                              (IF colVariant = "refinement" THEN 0 ELSE 255)

\* refinement.py has coloured a depth beyond MAX_DEPTH
C15_Witness ==
    /\ ColorShown
    /\ colVariant = "refinement"
    /\ \E i \in DOMAIN colPanels.sgm.index :
         /\ colPanels.sgm.depth[i][1] > Ref_MAX_DEPTH * colPanels.sgm.depth[i][2]
         /\ colPanels.sgm.index[i] = 0

\* C16: the hover query of refinement.py shows the infinite distance for the
\* SGM value and for the refined value whenever the disparity of the queried
\* pixel is <= 0 or equal to invalidDataValue (the refined one also when
\* there is no refined result yet), and a finite distance never has a zero
\* divisor.
C16_InvalidHoverIsInfinite ==
    (ColorShown /\ colVariant = "refinement" /\ colHover.pix # 0) =>
        /\ (colField[colHover.pix] <= 0 \/ IsInvalidValue(colField[colHover.pix]))
               => colHover.sgm = Inf
        /\ (colHover.published <= 0 \/ IsInvalidValue(colHover.published))
               => colHover.refined = Inf
        /\ colHover.sgm # Inf => colHover.sgm[2] # 0
        /\ colHover.refined # Inf => colHover.refined[2] # 0

\* C18: in StereoOpenCV, ImageUtilityStereo and refinement, once the user has
\* pressed Esc the loop eventually breaks and cam.EndAcquisition() is called,
\* also when frames keep timing out, arriving incomplete or raising.
C18_EscEndsAcquisition == escPending ~> (escPc = "returned")

\* the refined depth values refinement.py computes from a refined disparity
RefinedDepthOf(arr) ==
    Ref_Colorize(arr, AddOffset(arr, colInvalid, colOffset), colFb, {}).depth

\* C26: no iteration of the render loop of refinement.py changes the array
\* latest_refined_disp refers to, and the refined depth values an iteration
\* computes are those of the disparity the worker published last, so two
\* iterations with no new result between them compute the same values.
C26_RefinedDispReadOnly ==
    [][(ColorRender /\ colVariant = "refinement" /\ colHasRefined) =>
          /\ colLatest' = colLatest
          /\ colPanels'.refined.depth = RefinedDepthOf(colPublished)]_vars

\* C27: for every camera main runs, while acquire_images is in its loop (the
\* exit key has not been pressed for that camera) the worker started for the
\* camera has not ended, and a snapshot the worker holds is of a frame of
\* that camera.
C27_WorkerRunsForEachCamera ==
    /\ InMainLoop => workerPc # "done"
    /\ WorkerHasSnapshot => refined_left_snapshot > camFirstFrame

\* ------------------------------------------------------------------------
\* Properties of FileAccessUserSet.py
\* ------------------------------------------------------------------------

\* upload_user_set has padded the data and is in, or past, its write loop
UploadPadded == faOp = "upload" /\ faPc = "write"

\* the camera file operations of download_user_set and upload_user_set
FileOperations == {"Delete", "OpenRead", "OpenWrite", "Read", "Write", "Close"}

\* C19: in upload_user_set, once the data has been padded, the length of the
\* last chunk split_data yields is a multiple of 4, whatever the file size
\* and the buffer size.
C19_LastChunkMultipleOfFour ==
    (UploadPadded /\ data_size > 0) =>
        LastChunkLength(data_size, intermediate_buffer_size) % PadUnit = 0

\* C20: download_user_set and upload_user_set return True only if every
\* camera file operation they executed (delete, open, each read or write,
\* close) reported Success.
C20_TrueOnlyIfAllSucceeded ==
    (faPc = "done" /\ faReturn = "True") =>
        \A k \in DOMAIN camOps :
            camOps[k].op \in FileOperations => camOps[k].status = "Success"

RECURSIVE SumSeq(_)
SumSeq(seq) == IF seq = <<>> THEN 0 ELSE Head(seq) + SumSeq(Tail(seq))
\* the k-th operation executed on the camera reported Success
Succeeded(k) == camOps[k].status = "Success"
\* the positions of the operations named op
Positions(op) == {k \in DOMAIN camOps : camOps[k].op = op}
DownloadDone == faOp = "download" /\ faPc = "done"
UploadDone == faOp = "upload" /\ faPc = "done"

\* the place of an operation in the order of download_user_set
StepRank(op) ==
    CASE op = "SetExposure" -> 1
      [] op = "UserSetSave" -> 2
      [] op = "OpenRead" -> 3
      [] op = "Read" -> 4
      [] op = "Close" -> 5
      [] OTHER -> 0

\* C22: download_user_set runs its steps in the order set exposure, save to
\* UserSet0, open for reading, reads, close, write of the local file, each of
\* the first three and the close at most once; the local file is written only
\* after the close; and when set_exposure or save_to_user_set_zero fails the
\* function returns False with no open, no read and no local file.
C22_DownloadStepOrder ==
    faOp = "download" =>
        /\ \A i, j \in DOMAIN camOps :
             i < j => /\ StepRank(camOps[i].op) > 0
                      /\ StepRank(camOps[i].op) <= StepRank(camOps[j].op)
                      /\ (camOps[i].op # "Read" => camOps[i].op # camOps[j].op)
        /\ (camOps # <<>> => camOps[1].op = "SetExposure")
        /\ \A k \in DOMAIN camOps :
             k > 1 => \/ StepRank(camOps[k].op) <= StepRank(camOps[k-1].op) + 1
                      \/ camOps[k].op = "Close" /\ camOps[k-1].op = "OpenRead"
        /\ (local_file = "written" => camOps[Len(camOps)].op = "Close")
        /\ \A k \in DOMAIN camOps :
             (camOps[k].op \in {"SetExposure", "UserSetSave"} /\ ~Succeeded(k)) =>
                 /\ Len(camOps) = k
                 /\ faPc = "done"
                 /\ faReturn = "False"
                 /\ local_file = "none"

\* download_user_set has run to the end, with at least one read
C22_Witness ==
    /\ DownloadDone
    /\ local_file = "written"
    /\ Positions("Read") # {}

\* the lengths requested of the writes executed so far
WriteLengths == [k \in 1..Cardinality(Positions("Write")) |->
                    camOps[CHOOSE p \in Positions("Write") :
                             Cardinality({q \in Positions("Write") : q <= p}) = k].len]

\* C24: in the write loop of upload_user_set, with size_written the
\* FileAccessLength in force, no write is requested with a length of zero or
\* less, num_remaining_bytes is never negative, and when the loop has ended
\* without a failed write the lengths written add up to the original file
\* size and num_remaining_bytes is 0.
C24_WritesExactlyTheFile ==
    faOp = "upload" =>
        /\ \A k \in Positions("Write") : camOps[k].len > 0
        /\ num_remaining_bytes >= 0
        /\ (UploadDone /\ faReturn = "True") =>
              /\ SumSeq(WriteLengths) = file_size
              /\ num_remaining_bytes = 0

\* the number of reads ceil(FileSize / FileAccessLength)
ReadsRequired == CeilDiv(cam_file_size, intermediate_buffer_size)

\* C25: the read loop of download_user_set executes at most
\* ceil(FileSize / FileAccessLength) reads, and exactly that many (none for
\* an empty file) before the close; the chunks are kept in the order read,
\* full buffers first and the remainder last; the local file is written only
\* when every read reported Success, and a failed read is the last operation,
\* returns False and leaves no local file.
C25_ReadLoop ==
    faOp = "download" =>
        /\ Cardinality(Positions("Read")) <= ReadsRequired
        /\ Positions("Close") # {} =>
              /\ Cardinality(Positions("Read")) = ReadsRequired
              /\ Len(chunks) = ReadsRequired
              /\ SumSeq(chunks) = cam_file_size
        /\ \A k \in DOMAIN chunks :
              chunks[k] = IF k * intermediate_buffer_size <= cam_file_size
                          THEN intermediate_buffer_size
                          ELSE cam_file_size % intermediate_buffer_size
        /\ local_file = "written" => \A k \in Positions("Read") : Succeeded(k)
        /\ \A k \in Positions("Read") :
              ~Succeeded(k) => /\ Len(camOps) = k
                               /\ faPc = "done"
                               /\ faReturn = "False"
                               /\ local_file = "none"

\* a file that needs more than one read, the last one shorter, was downloaded
C25_Witness ==
    /\ DownloadDone
    /\ local_file = "written"
    /\ cam_file_size > intermediate_buffer_size
    /\ cam_file_size % intermediate_buffer_size # 0
    /\ Len(chunks) = ReadsRequired

\* main has printed that the example completed successfully
ReportedSuccess ==
    \E k \in DOMAIN fmConsole : fmConsole[k] = "Example completed successfully!"

\* C21: when main returns for an argument list parse_args accepts (two
\* arguments, the first upload or download in any letter case), it has made
\* exactly one call, of the transfer the first argument names, with the
\* second argument as path, and it has reported success only if that call
\* returned True; when it returns for a rejected list no camera was touched
\* and no transfer was called.
C21_MainRunsTheTransfer ==
    fmPc = "returned" =>
        IF parse_args(args).none
        THEN ~cam_touched /\ transfers = <<>>
        ELSE /\ transfers = <<[op |-> lower(args[1]), path |-> args[2]]>>
             /\ ReportedSuccess => faReturn = "True"

\* ------------------------------------------------------------------------
\* Properties of CameraTimeToPCTime.py
\* ------------------------------------------------------------------------

\* C23: acquire_images ends by returning True or False, never by an
\* exception; once the selection is done one of the three offset functions is
\* selected, whatever the model name and the device type; and when the
\* selected function has returned None, acquire_images returns False.
C23_AcquireImagesReturnsBool ==
    /\ tsPc = "done" => tsReturn \in {"True", "False"}
    /\ tsPc \in {"begin", "loop"} => calculate_offset # "unbound"
    /\ (tsPc = "done" /\ offset_failed) => tsReturn = "False"

====
